---------------------------- MODULE Spec2Model ----------------------------
(***************************************************************************)
(* A state-machine model of the JSBSim flight-dynamics core: the executive *)
(* (step size, hold), the gravitation/inertial model FGInertial and the    *)
(* vehicle state kept by FGPropagate.                                      *)
(*                                                                         *)
(* Numbers.  The code computes in IEEE doubles; the model computes in      *)
(* exact integers and exact fractions of integers:                         *)
(*   - a step size is an integer count of ticks of 1e-5 s (the step h of   *)
(*     the linearization is one tick) and an angle an integer count of     *)
(*     1e-16 rad, so RotationRate = 0.00007292115 rad/s is 7292115 per     *)
(*     tick;                                                               *)
(*   - a length is an integer count of feet;                               *)
(*   - an integer that does not fit 31 bits (GM, a squared radius) is a    *)
(*     sequence of base-10000 limbs, least significant first;              *)
(*   - a quotient (a gravitational acceleration) is the pair of its        *)
(*     numerator and denominator, never rounded;                           *)
(*   - where the exactness of a floating-point result is what is checked   *)
(*     (the numerical Jacobian), a double is a decimal floating-point      *)
(*     number of three significant digits and every sum, difference and    *)
(*     product is rounded to it (Rnd).                                     *)
(***************************************************************************)
EXTENDS Integers, Sequences, FiniteSets, TLC

VARIABLES
    dT,          \* FGFDMExec: the step size returned by GetDeltaT()
    holding,     \* FGFDMExec: Holding()
    inertial,    \* the FGInertial object (its data members)
    propagate,   \* the FGPropagate object (VState and the cached matrices)
    last,        \* observation: the last operation called, its inputs and result
    executedDt,  \* observation: sum of dT over the Run calls of FGInertial that
                 \* were neither fast-returned by the base model nor held,
                 \* since the last successful InitModel
    nRun,        \* observation: number of Run calls made so far (bounds the run)
    stateSpace,  \* the FGStateSpace object: the values behind its component
                 \* vectors and the matrices of the last linearization
    massBalance, \* the FGMassBalance object (inertia tensors and point masses)
    Function,    \* an FGFunction object: its operation, its Parameters, its cache
    properties,  \* the values of the properties the function reads
    valueWhenCached, \* what the function evaluated to when its cache was filled
    motion,      \* the integrated quantities of FGPropagate, their derivative
                 \* histories and the integrators selected for them
    since,       \* the steps since InitModel: how many, from what values, with
                 \* what derivatives and step size
    pointMass,   \* one PointMass structure of FGMassBalance, with its shape
    simplexTrim, \* the run of the FGSimplexTrim constructor: where it is, its
                 \* constraints, its solver and what it did to the simulation
    strings      \* the string utilities: the string worked on, the position of
                 \* the call in progress and its result

\* the objects the gravitation and propagation operations never touch
engine == <<Function, properties, valueWhenCached>>

integration == <<motion, since>>

utilities == <<pointMass, simplexTrim, strings>>

analysis == <<stateSpace, massBalance, engine, integration, utilities>>

vars == <<dT, holding, inertial, propagate, last, executedDt, nRun, stateSpace,
         massBalance, Function, properties, valueWhenCached, motion, since,
         pointMass, simplexTrim, strings>>

----------------------------------------------------------------------------
(* Bounds of the model.                                                    *)

MaxDt == 2
MaxRuns == 3
MaxCoord == 1

\* the heaviest point mass, in slugs, and the most point masses
MaxSlugs == 2
MaxPointMasses == 2

\* the most children of an operation element
MaxChildren == 3

\* the most steps followed after an InitModel, and the largest component of
\* the angular rate a step starts from
MaxSteps == 2
MaxRate == 200

\* the largest radius and length of a shaped point mass, in feet
MaxFeet == 2

\* the most calls of update() the solver takes before it stops or throws
MaxUpdates == 2

\* the longest string given to a string utility
MaxLen == 3

----------------------------------------------------------------------------
(* Exact arithmetic on naturals of any size.                               *)

Base == 10^4

Abs(n) == IF n < 0 THEN -n ELSE n

RECURSIVE ToBig(_)
ToBig(n) == IF n = 0 THEN <<>> ELSE <<n % Base>> \o ToBig(n \div Base)

RECURSIVE BigNorm(_)
BigNorm(s) ==
    IF s = <<>> THEN <<>>
    ELSE IF s[Len(s)] = 0 THEN BigNorm(SubSeq(s, 1, Len(s) - 1))
    ELSE s

Limb(s, i) == IF i <= Len(s) THEN s[i] ELSE 0

RECURSIVE BigAddFrom(_, _, _, _)
BigAddFrom(x, y, i, carry) ==
    IF i > Len(x) /\ i > Len(y)
    THEN (IF carry = 0 THEN <<>> ELSE <<carry>>)
    ELSE LET t == Limb(x, i) + Limb(y, i) + carry
         IN  <<t % Base>> \o BigAddFrom(x, y, i + 1, t \div Base)

BigAdd(x, y) == BigNorm(BigAddFrom(x, y, 1, 0))

RECURSIVE BigScaleFrom(_, _, _, _)
BigScaleFrom(x, k, i, carry) ==
    IF i > Len(x)
    THEN ToBig(carry)
    ELSE LET t == x[i] * k + carry
         IN  <<t % Base>> \o BigScaleFrom(x, k, i + 1, t \div Base)

\* x * k for a single limb k (0 <= k < Base)
BigScale(x, k) == BigNorm(BigScaleFrom(x, k, 1, 0))

\* x * Base
BigShift(x) == IF x = <<>> THEN <<>> ELSE <<0>> \o x

RECURSIVE BigMul(_, _)
BigMul(x, y) ==
    IF y = <<>> THEN <<>>
    ELSE BigAdd(BigScale(x, y[1]), BigShift(BigMul(x, Tail(y))))

RECURSIVE BigLeqFrom(_, _, _)
BigLeqFrom(x, y, i) ==
    IF i = 0 THEN TRUE
    ELSE IF x[i] # y[i] THEN x[i] < y[i]
    ELSE BigLeqFrom(x, y, i - 1)

\* x <= y, both normalised
BigLeq(x, y) ==
    IF Len(x) # Len(y) THEN Len(x) < Len(y) ELSE BigLeqFrom(x, y, Len(x))

RECURSIVE BigSubFrom(_, _, _, _)
BigSubFrom(x, y, i, borrow) ==
    IF i > Len(x) THEN <<>>
    ELSE LET t == x[i] - Limb(y, i) - borrow
         IN  IF t < 0 THEN <<t + Base>> \o BigSubFrom(x, y, i + 1, 1)
             ELSE <<t>> \o BigSubFrom(x, y, i + 1, 0)

\* x - y for y <= x
BigSub(x, y) == BigNorm(BigSubFrom(x, y, 1, 0))

\* a signed integer: its sign and its magnitude
Signed(neg, mag) == [neg |-> neg /\ mag # <<>>, mag |-> mag]

SignedAdd(p, q) ==
    IF p.neg = q.neg THEN Signed(p.neg, BigAdd(p.mag, q.mag))
    ELSE IF BigLeq(q.mag, p.mag) THEN Signed(p.neg, BigSub(p.mag, q.mag))
    ELSE Signed(q.neg, BigSub(q.mag, p.mag))

SignedScale(p, k) == Signed((p.neg /\ k > 0) \/ (~p.neg /\ k < 0), BigScale(p.mag, Abs(k)))

\* p * m * k for a magnitude m and a small integer k
SignedTimes(p, m, k) == SignedScale(Signed(p.neg, BigMul(m, p.mag)), k)

\* the signed quotient p/den
SignedQuot(p, den) == [neg |-> p.neg, num |-> p.mag, den |-> den]

\* a quotient num/den, kept exact
Frac(n, d) == [num |-> n, den |-> d]

\* p/q <= r/s for positive denominators
FracLeq(f, g) == BigLeq(BigMul(f.num, g.den), BigMul(g.num, f.den))

----------------------------------------------------------------------------
(* Vectors, matrices and quaternions (FGColumnVector3, FGMatrix33,         *)
(* FGQuaternion).  A vector is <<x, y, z>>, a matrix the tuple of its rows, *)
(* a quaternion <<q1, q2, q3, q4>> with q1 the scalar part.                *)

ZeroVec == <<0, 0, 0>>

ZeroMat == <<ZeroVec, ZeroVec, ZeroVec>>

VecSub(u, v) == <<u[1] - v[1], u[2] - v[2], u[3] - v[3]>>

VecAdd(u, v) == <<u[1] + v[1], u[2] + v[2], u[3] + v[3]>>

VecScale(k, v) == <<k * v[1], k * v[2], k * v[3]>>

Dot(u, v) == u[1] * v[1] + u[2] * v[2] + u[3] * v[3]

MatVec(M, v) == <<Dot(M[1], v), Dot(M[2], v), Dot(M[3], v)>>

Col(M, j) == <<M[1][j], M[2][j], M[3][j]>>

Transposed(M) == <<Col(M, 1), Col(M, 2), Col(M, 3)>>

MatRow(r, B) == <<Dot(r, Col(B, 1)), Dot(r, Col(B, 2)), Dot(r, Col(B, 3))>>

MatMul(A, B) == <<MatRow(A[1], B), MatRow(A[2], B), MatRow(A[3], B)>>

\* The vectors of the model lie on a coordinate axis (at most one non-zero
\* component), where the Euclidean norm sqrt(x*x + y*y + z*z) is the sum of
\* the absolute values and is an integer.
OnAxis(v) == Cardinality({i \in 1..3 : v[i] # 0}) <= 1

Magnitude(v) == Abs(v[1]) + Abs(v[2]) + Abs(v[3])

\* Magnitude(eX, eY): the norm of the projection on the equatorial plane
MagnitudeXY(v) == Abs(v[1]) + Abs(v[2])

\* FGQuaternion::GetT(): the rotation matrix of a unit quaternion
QuatT(q) ==
    << << q[1]*q[1] + q[2]*q[2] - q[3]*q[3] - q[4]*q[4],
          2 * (q[2]*q[3] + q[1]*q[4]),
          2 * (q[2]*q[4] - q[1]*q[3]) >>,
       << 2 * (q[2]*q[3] - q[1]*q[4]),
          q[1]*q[1] - q[2]*q[2] + q[3]*q[3] - q[4]*q[4],
          2 * (q[3]*q[4] + q[1]*q[2]) >>,
       << 2 * (q[2]*q[4] + q[1]*q[3]),
          2 * (q[3]*q[4] - q[1]*q[2]),
          q[1]*q[1] - q[2]*q[2] - q[3]*q[3] + q[4]*q[4] >> >>

\* The unit quaternions with integer entries: the identity and the half turns
\* about the body axes.  The attitudes of the model are drawn from these.
IdentityQuat == <<1, 0, 0, 0>>

Quats == {<<1, 0, 0, 0>>, <<0, 1, 0, 0>>, <<0, 0, 1, 0>>, <<0, 0, 0, 1>>}

\* Angles are counted in quarter turns, where sine and cosine are integers.
Cos4(k) == CASE k % 4 = 0 -> 1 [] k % 4 = 1 -> 0 [] k % 4 = 2 -> -1 [] OTHER -> 0

Sin4(k) == CASE k % 4 = 0 -> 0 [] k % 4 = 1 -> 1 [] k % 4 = 2 -> 0 [] OTHER -> -1

\* FGQuaternion(FGColumnVector3 vOrient): the quaternion of the Euler angles
\* (phi, tht, psi).  Only the angles (0, 0, 0) and one half turn about one
\* axis have integer entries; the model converts no other vector.
QuatFromEuler(v) ==
    CASE v = <<0, 0, 0>> -> <<1, 0, 0, 0>>
      [] v = <<2, 0, 0>> -> <<0, 1, 0, 0>>
      [] v = <<0, 2, 0>> -> <<0, 0, 1, 0>>
      [] v = <<0, 0, 2>> -> <<0, 0, 0, 1>>

----------------------------------------------------------------------------
(* FGLocation: a position held as its ECEF vector mECLoc, with the derived *)
(* radius and the ECEF-to-local matrix.                                    *)

LocRadius(loc) == Magnitude(loc)

\* sine and cosine of the longitude and latitude, as ComputeDerived has them
SinLon(loc) == IF MagnitudeXY(loc) = 0 THEN 0 ELSE loc[2] \div MagnitudeXY(loc)

CosLon(loc) == IF MagnitudeXY(loc) = 0 THEN 1 ELSE loc[1] \div MagnitudeXY(loc)

SinLat(loc) == IF Magnitude(loc) = 0 THEN 0 ELSE loc[3] \div Magnitude(loc)

CosLat(loc) == IF Magnitude(loc) = 0 THEN 1 ELSE MagnitudeXY(loc) \div Magnitude(loc)

LocTec2l(loc) ==
    << << -(CosLon(loc) * SinLat(loc)), -(SinLon(loc) * SinLat(loc)), CosLat(loc) >>,
       << -SinLon(loc), CosLon(loc), 0 >>,
       << -(CosLon(loc) * CosLat(loc)), -(SinLon(loc) * CosLat(loc)), -SinLat(loc) >> >>

\* FGLocation::SetRadius.  On an axis the quotient of a component by the
\* radius is -1, 0 or 1, so the scaling by r/rold is exact.
LocSetRadius(loc, r) ==
    IF LocRadius(loc) = 0 THEN <<r, 0, 0>>
    ELSE <<(loc[1] \div LocRadius(loc)) * r,
           (loc[2] \div LocRadius(loc)) * r,
           (loc[3] \div LocRadius(loc)) * r>>

\* FGLocation::SetLongitude, the longitude in quarter turns
LocSetLongitude(loc, lon) ==
    LET rtmp == IF Magnitude(loc) = 0 THEN 1 ELSE MagnitudeXY(loc)
    IN  IF rtmp = 0 THEN loc
        ELSE <<rtmp * Cos4(lon), rtmp * Sin4(lon), loc[3]>>

\* FGLocation::SetLatitude, the latitude in quarter turns
LocSetLatitude(loc, lat) ==
    LET l0 == IF Magnitude(loc) = 0 THEN <<1, 0, 0>> ELSE loc
        r == Magnitude(l0)
        rtmp == MagnitudeXY(l0)
    IN  IF rtmp # 0
        THEN << (l0[1] \div rtmp) * r * Cos4(lat),
                (l0[2] \div rtmp) * r * Cos4(lat),
                r * Sin4(lat) >>
        ELSE << r * Cos4(lat), 0, r * Sin4(lat) >>


----------------------------------------------------------------------------
(* FGInertial: the gravitation model and the planetary rotation angle.     *)

\* 0.00007292115 rad/s, in 1e-11 rad/s
RotationRate == 7292115

\* 14.07644180E15 ft^3/s^2
GM == <<0, 0, 4418, 4076, 1>>

\* 20925650.00 ft
RadiusReference == 20925650

\* -4.84165371736E-04, as sign and digits in 1e-15
C2_0 == [neg |-> TRUE, digits |-> <<1736, 6537, 4841>>]

\* 1.0826266836E-03, digits in 1e-13
J2 == [neg |-> FALSE, digits |-> <<6836, 2626, 108>>]

\* 20925646.3255 ft, digits in 1e-4 ft
SemiMajor == [neg |-> FALSE, digits |-> <<3255, 5646, 2092>>]

\* 20855486.5951 ft, digits in 1e-4 ft
SemiMinor == [neg |-> FALSE, digits |-> <<5951, 5486, 2085>>]

\* the object as FGInertial::FGInertial leaves it
FGInertial_Constructed ==
    [ RotationRate    |-> RotationRate,
      GM              |-> GM,
      RadiusReference |-> RadiusReference,
      C2_0            |-> C2_0,
      J2              |-> J2,
      a               |-> SemiMajor,
      b               |-> SemiMinor,
      earthPosAngle   |-> 0,
      gAccelReference |-> Frac(GM, BigMul(ToBig(RadiusReference), ToBig(RadiusReference))),
      gAccel          |-> Frac(GM, BigMul(ToBig(RadiusReference), ToBig(RadiusReference))) ]

\* GetGAccel dividing by the radius instead of its square
FGInertial_GetGAccel_NotSquared(self, r) == Frac(self.GM, ToBig(r))

\* FGInertial::GetGAccel(r): GM/(r*r)
FGInertial_GetGAccel(self, r) == Frac(self.GM, BigMul(ToBig(r), ToBig(r)))

\* 10^21, the scale of J2 * a * a in the digits above
TenTo21 == <<0, 0, 0, 0, 0, 10>>

\* FGInertial::GetGravityJ2(position), lat being what Propagate->GetLatitude()
\* gives through its sine.  With J2 and a as digits, preCommon * c is
\* 3 * J2 * a * a * c / (2 * 10^21 * r * r), so each component is the quotient
\*   -(position(i)/r) * GM * (2 * 10^21 * r*r + 3 * J2 * a*a * c) / (2 * 10^21 * r^4)
\* with c = xy for the X and Y components and c = z for the Z component.
FGInertial_GetGravityJ2(self, position, sinLat) ==
    LET r == Magnitude(position)
        rr == BigMul(ToBig(r), ToBig(r))
        xy == 1 - 5 * (sinLat * sinLat)
        z == 3 - 5 * (sinLat * sinLat)
        ja == BigScale(BigMul(self.J2.digits, BigMul(self.a.digits, self.a.digits)), 3)
        one == BigScale(BigMul(TenTo21, rr), 2)
        Factor(c) == SignedAdd(Signed(FALSE, one), SignedScale(Signed(FALSE, ja), c))
        Comp(p, c) == SignedQuot(SignedTimes(Factor(c), self.GM, -(p \div r)),
                                 BigMul(one, rr))
    IN  <<Comp(position[1], xy), Comp(position[2], xy), Comp(position[3], z)>>

\* InitModel resetting the angle before it looks at the base class's result
FGInertial_InitModel_ResetFirst(self, baseOk) ==
    IF ~baseOk THEN [self |-> [self EXCEPT !.earthPosAngle = 0], ret |-> FALSE]
    ELSE [self |-> [self EXCEPT !.earthPosAngle = 0], ret |-> TRUE]

\* FGInertial::InitModel; baseOk is what FGModel::InitModel() returns
FGInertial_InitModel(self, baseOk) ==
    IF ~baseOk THEN [self |-> self, ret |-> FALSE]
    ELSE [self |-> [self EXCEPT !.earthPosAngle = 0], ret |-> TRUE]

RunTrace == <<"RunPreFunctions", "gAccel", "earthPosAngle", "RunPostFunctions">>

\* Run without the Holding() test: a held step advances like any other
FGInertial_Run_NoHoldCheck(self, nothingToDo, hold, dt, r) ==
    IF nothingToDo THEN [self |-> self, ret |-> TRUE, trace |-> <<>>]
    ELSE [ self  |-> [self EXCEPT
                        !.gAccel = FGInertial_GetGAccel(self, r),
                        !.earthPosAngle = self.earthPosAngle + dt * self.RotationRate],
           ret   |-> FALSE,
           trace |-> RunTrace ]

\* Run computing the gravitation before the fast returns
FGInertial_Run_GAccelFirst(self, nothingToDo, hold, dt, r) ==
    LET g == [self EXCEPT !.gAccel = FGInertial_GetGAccel(self, r)]
    IN  IF nothingToDo THEN [self |-> g, ret |-> TRUE, trace |-> <<>>]
        ELSE IF hold THEN [self |-> g, ret |-> FALSE, trace |-> <<>>]
        ELSE [ self  |-> [g EXCEPT
                            !.earthPosAngle = self.earthPosAngle + dt * self.RotationRate],
               ret   |-> FALSE,
               trace |-> RunTrace ]

\* Run reporting a held step like a frozen one
FGInertial_Run_HoldReturnsTrue(self, nothingToDo, hold, dt, r) ==
    IF nothingToDo \/ hold THEN [self |-> self, ret |-> TRUE, trace |-> <<>>]
    ELSE [ self  |-> [self EXCEPT
                        !.gAccel = FGInertial_GetGAccel(self, r),
                        !.earthPosAngle = self.earthPosAngle + dt * self.RotationRate],
           ret   |-> FALSE,
           trace |-> RunTrace ]

\* Run storing the gravitation in gAccelReference instead of gAccel
FGInertial_Run_WritesReference(self, nothingToDo, hold, dt, r) ==
    IF nothingToDo THEN [self |-> self, ret |-> TRUE, trace |-> <<>>]
    ELSE IF hold THEN [self |-> self, ret |-> FALSE, trace |-> <<>>]
    ELSE [ self  |-> [self EXCEPT
                        !.gAccelReference = FGInertial_GetGAccel(self, r),
                        !.earthPosAngle = self.earthPosAngle + dt * self.RotationRate],
           ret   |-> FALSE,
           trace |-> RunTrace ]

\* the post-step hooks run before the rotation angle is advanced
FGInertial_Run_PostBeforeAngle(self, nothingToDo, hold, dt, r) ==
    IF nothingToDo THEN [self |-> self, ret |-> TRUE, trace |-> <<>>]
    ELSE IF hold THEN [self |-> self, ret |-> FALSE, trace |-> <<>>]
    ELSE [ self  |-> [self EXCEPT
                        !.gAccel = FGInertial_GetGAccel(self, r),
                        !.earthPosAngle = self.earthPosAngle + dt * self.RotationRate],
           ret   |-> FALSE,
           trace |-> <<"RunPreFunctions", "gAccel", "RunPostFunctions", "earthPosAngle">> ]

\* FGInertial::Run.  nothingToDo is what FGModel::Run() returns, hold what
\* FDMExec->Holding() returns, dt what FDMExec->GetDeltaT() returns and r what
\* Propagate->GetRadius() returns.  trace lists the steps taken, in order.
FGInertial_Run(self, nothingToDo, hold, dt, r) ==
    IF nothingToDo THEN [self |-> self, ret |-> TRUE, trace |-> <<>>]
    ELSE IF hold THEN [self |-> self, ret |-> FALSE, trace |-> <<>>]
    ELSE [ self  |-> [self EXCEPT
                        !.gAccel = FGInertial_GetGAccel(self, r),
                        !.earthPosAngle = self.earthPosAngle + dt * self.RotationRate],
           ret   |-> FALSE,
           trace |-> RunTrace ]


----------------------------------------------------------------------------
(* FGPropagate: the vehicle state and the cached ECEF<->body matrices.     *)

\* deque::resize(n, fill): the first n entries, or the entries followed by
\* copies of fill up to length n
RECURSIVE Resize(_, _, _)
Resize(dq, n, fill) ==
    IF Len(dq) >= n THEN SubSeq(dq, 1, n)
    ELSE Resize(Append(dq, fill), n, fill)

\* the object as its members' default constructors leave it: vectors and
\* matrices zeroed, the location at the centre, identity quaternions, empty
\* deques
FGPropagate_Constructed ==
    [ VState |->
        [ vLocation          |-> ZeroVec,
          vUVW               |-> ZeroVec,
          vPQR               |-> ZeroVec,
          vPQRi              |-> ZeroVec,
          qAttitudeLocal     |-> IdentityQuat,
          qAttitudeECI       |-> IdentityQuat,
          vInertialVelocity  |-> ZeroVec,
          vInertialPosition  |-> ZeroVec,
          dqPQRdot           |-> <<>>,
          dqUVWdot           |-> <<>>,
          dqInertialVelocity |-> <<>>,
          dqQtrndot          |-> <<>> ],
      Tec2b       |-> ZeroMat,
      Tb2ec       |-> ZeroMat,
      vDeltaXYZEC |-> ZeroVec ]

\* GetRadius without the guard on a zero radius
FGPropagate_GetRadius_NoGuard(self) == LocRadius(self.VState.vLocation)

\* FGPropagate::GetRadius
FGPropagate_GetRadius(self) ==
    IF LocRadius(self.VState.vLocation) = 0 THEN 1
    ELSE LocRadius(self.VState.vLocation)

\* FGPropagate::GetTec2b, GetTb2ec
FGPropagate_GetTec2b(self) == self.Tec2b

FGPropagate_GetTb2ec(self) == self.Tb2ec

\* FGPropagate::SetVState
FGPropagate_SetVState(self, vstate) ==
    [self EXCEPT
        !.VState.vLocation = vstate.vLocation,
        !.VState.vUVW = vstate.vUVW,
        !.VState.vPQR = vstate.vPQR,
        !.VState.qAttitudeLocal = vstate.qAttitudeLocal,
        !.VState.qAttitudeECI = vstate.qAttitudeECI,
        !.VState.dqPQRdot = Resize(self.VState.dqPQRdot, 4, <<0, 0, 0>>),
        !.VState.dqUVWdot = Resize(self.VState.dqUVWdot, 4, <<0, 0, 0>>),
        !.VState.dqInertialVelocity =
            Resize(self.VState.dqInertialVelocity, 4, <<0, 0, 0>>),
        !.VState.dqQtrndot =
            Resize(self.VState.dqQtrndot, 4, QuatFromEuler(<<0, 0, 0>>))]

\* FGPropagate::SetLongitude, SetLatitude, SetRadius, SetLocation
FGPropagate_SetLongitude(self, lon) ==
    [self EXCEPT !.VState.vLocation = LocSetLongitude(self.VState.vLocation, lon)]

FGPropagate_SetLatitude(self, lat) ==
    [self EXCEPT !.VState.vLocation = LocSetLatitude(self.VState.vLocation, lat)]

FGPropagate_SetRadius(self, r) ==
    [self EXCEPT !.VState.vLocation = LocSetRadius(self.VState.vLocation, r)]

FGPropagate_SetLocation(self, l) ==
    [self EXCEPT !.VState.vLocation = l]

\* FGPropagate::NudgeBodyLocation
FGPropagate_NudgeBodyLocation(self, deltaLoc) ==
    LET d == MatVec(FGPropagate_GetTb2ec(self), deltaLoc)
    IN  [self EXCEPT !.vDeltaXYZEC = d,
                     !.VState.vLocation = VecSub(self.VState.vLocation, d)]


\* The matrices a step leaves: Tec2b = Tl2b * Tec2l and its transpose
UpdateBodyMatrices(self) ==
    LET T == MatMul(QuatT(self.VState.qAttitudeLocal), LocTec2l(self.VState.vLocation))
    IN  [self EXCEPT !.Tec2b = T, !.Tb2ec = Transposed(T)]

\* The Earth's angular velocity, in units of the rotation rate
vOmegaEarth == <<0, 0, 1>>

Cross(u, v) ==
    <<u[2] * v[3] - u[3] * v[2], u[3] * v[1] - u[1] * v[3], u[1] * v[2] - u[2] * v[1]>>

\* A complete vehicle state with the given independent components and the
\* dependent ones (inertial rate, inertial velocity and position) derived
\* from them; dq is the length-one history the sample carries.
MkVState(loc, uvw, pqr, qLocal, qECI, dq) ==
    [ vLocation          |-> loc,
      vUVW               |-> uvw,
      vPQR               |-> pqr,
      vPQRi              |-> VecAdd(pqr, MatVec(QuatT(qECI), vOmegaEarth)),
      qAttitudeLocal     |-> qLocal,
      qAttitudeECI       |-> qECI,
      vInertialVelocity  |-> VecAdd(MatVec(Transposed(QuatT(qECI)), uvw),
                                    Cross(vOmegaEarth, loc)),
      vInertialPosition  |-> loc,
      dqPQRdot           |-> <<dq>>,
      dqUVWdot           |-> <<dq>>,
      dqInertialVelocity |-> <<dq>>,
      dqQtrndot          |-> <<<<0, dq[1], dq[2], dq[3]>>>> ]

\* The vehicle states handed to the model from outside: initial conditions,
\* states passed to SetVState, and the states a step integrates to.
StateSamples ==
    { MkVState(<<1, 0, 0>>, <<1, 0, 0>>, <<0, 0, 0>>, <<1, 0, 0, 0>>, <<1, 0, 0, 0>>,
               <<1, 0, 0>>),
      MkVState(<<0, -1, 0>>, <<0, 1, 0>>, <<1, 0, 0>>, <<0, 1, 0, 0>>,
               <<0, 0, 1, 0>>, <<0, 1, 0>>) }

\* the derivative samples a step pushes on the histories
Derivs == {<<0, 0, 0>>, <<1, 0, 0>>}

PushFront(dq, x) == SubSeq(<<x>> \o dq, 1, Len(dq))

\* 2^32, the number of values of an unsigned int, and the conversion of the
\* int n to unsigned int
TwoTo32 == <<7296, 9496, 42>>

ToUnsigned(n) == IF n < 0 THEN BigSub(TwoTo32, ToBig(-n)) ELSE ToBig(n)

\* (i>=1) && (i<=3) on an unsigned int
OneToThree(i) == BigLeq(ToBig(1), i) /\ BigLeq(i, ToBig(3))

\* a SetPQR that keeps the inertial rate vPQRi in step with vPQR
FGPropagate_SetPQR_WithInertialRate(self, i, val) ==
    IF OneToThree(i)
    THEN [self EXCEPT
            !.VState.vPQR[i[1]] = val,
            !.VState.vPQRi =
                VecAdd([self.VState.vPQR EXCEPT ![i[1]] = val],
                       MatVec(QuatT(self.VState.qAttitudeECI), vOmegaEarth))]
    ELSE self

\* FGPropagate::SetPQR(unsigned int i, double val)
FGPropagate_SetPQR(self, i, val) ==
    IF OneToThree(i) THEN [self EXCEPT !.VState.vPQR[i[1]] = val] ELSE self

\* FGPropagate::SetUVW(unsigned int i, double val)
FGPropagate_SetUVW(self, i, val) ==
    IF OneToThree(i) THEN [self EXCEPT !.VState.vUVW[i[1]] = val] ELSE self

\* FGPropagate::InitModel followed by the load of the initial condition ic:
\* the state is the initial condition, the histories are resized to 4 entries
\* (the quaternion one with FGQuaternion(0.0, 0.0, 0.0), the quaternion of
\* zero Euler angles), the matrices are those of the initial attitude and
\* location.
FGPropagate_InitModel(self, baseOk, ic) ==
    IF ~baseOk THEN self
    ELSE UpdateBodyMatrices(
           [self EXCEPT
              !.VState = [ic EXCEPT
                            !.dqPQRdot = Resize(<<>>, 4, <<0, 0, 0>>),
                            !.dqUVWdot = Resize(<<>>, 4, <<0, 0, 0>>),
                            !.dqInertialVelocity = Resize(<<>>, 4, <<0, 0, 0>>),
                            !.dqQtrndot = Resize(<<>>, 4, QuatFromEuler(<<0, 0, 0>>))]])

\* FGPropagate::Run.  The forces and moments are inputs of the step, so the
\* state it integrates to (next) and the derivative it records (d) are drawn
\* from the samples; the step then recomputes the matrices.
FGPropagate_Run(self, nothingToDo, hold, next, d) ==
    IF nothingToDo THEN [self |-> self, ret |-> TRUE]
    ELSE IF hold THEN [self |-> self, ret |-> FALSE]
    ELSE [ self |-> UpdateBodyMatrices(
                      [self EXCEPT
                         !.VState = [next EXCEPT
                            !.dqPQRdot = PushFront(self.VState.dqPQRdot, d),
                            !.dqUVWdot = PushFront(self.VState.dqUVWdot, d),
                            !.dqInertialVelocity =
                                PushFront(self.VState.dqInertialVelocity, d),
                            !.dqQtrndot =
                                PushFront(self.VState.dqQtrndot,
                                          <<0, d[1], d[2], d[3]>>)]]),
           ret  |-> FALSE ]


----------------------------------------------------------------------------
(* FGStateSpace: the linearization of the complete simulation by numerical *)
(* Jacobians.  A state or input value is an integer count of 1e-5, so the  *)
(* perturbation h is one unit.                                             *)

\* double h = 1e-5: one tick as a step size, one unit as a perturbation
h == 1

\* A double of the linearization: an integer of at most three significant
\* decimal digits.  Scale(n) is the weight of the last digit kept for the
\* magnitude n, Rnd(v) the nearest such number (ties away from zero).
Significand == 10^3

RECURSIVE Scale(_)
Scale(n) == IF n < Significand THEN 1 ELSE 10 * Scale(n \div 10)

Rnd(v) ==
    LET n == Abs(v)
        r == ((n + (Scale(n) \div 2)) \div Scale(n)) * Scale(n)
    IN  IF v < 0 THEN -r ELSE r

\* The plant behind the component vectors: two states and one input, with
\*   x1' = PlantA * x1 + PlantB * u1  and  x2' = x1  (per tick),
\* integrated by one rectangular step.
PlantA == 2

PlantB == 3

PlantStep(x, u, dt) ==
    << Rnd(x[1] + Rnd(dt * Rnd(Rnd(PlantA * x[1]) + Rnd(PlantB * u[1])))),
       Rnd(x[2] + Rnd(dt * x[1])) >>

\* the simulation FGStateSpace holds by reference (m_fdm), as a value; runs
\* observes the calls of Run() made on it: the step size and the component
\* vectors each one started from
Fdm(ss) ==
    [dT |-> dT, holding |-> holding, inertial |-> inertial, x |-> ss.x, u |-> ss.u,
     runs |-> <<>>]

\* m_fdm.Run(): every model runs once; r is the radius FGInertial reads.  A
\* holding executive makes each model return before it updates anything.
FGFDMExec_Run(fdm, r) ==
    [fdm EXCEPT
       !.inertial = FGInertial_Run(fdm.inertial, FALSE, fdm.holding, fdm.dT, r).self,
       !.x = IF fdm.holding THEN fdm.x ELSE PlantStep(fdm.x, fdm.u, fdm.dT),
       !.runs = Append(@, [dT |-> fdm.dT, x |-> fdm.x, u |-> fdm.u])]

\* ComponentVector::get(): the values of the vector named cv.  The outputs
\* are the states (ss.y = ss.x, state feedback).
CvGet(fdm, cv) == IF cv = "u" THEN fdm.u ELSE fdm.x

\* ComponentVector::set(vals)
CvSet(fdm, cv, vals) ==
    IF cv = "u" THEN [fdm EXCEPT !.u = vals] ELSE [fdm EXCEPT !.x = vals]

\* ComponentVector::set(j, val)
CvSetAt(fdm, cv, j, val) == CvSet(fdm, cv, [CvGet(fdm, cv) EXCEPT ![j] = val])

\* the only element of a set of one element; { e(v) : v \in {d} } makes d a
\* value before e uses it
Only(S) == CHOOSE v \in S : TRUE

\* a stencil point that perturbs whatever the run before it left, without
\* x.set(x0) and y.set(y0)
StencilPoint_NoRestore(fdm, y, x, y0, x0, i, j, k, r) ==
    LET perturbed == CvSetAt(fdm, x, j, Rnd(CvGet(fdm, x)[j] + k))
    IN  Only({ [fdm |-> after, f |-> CvGet(after, y)[i]] :
                   after \in {FGFDMExec_Run(perturbed, r)} })

\* One stencil point: x.set(x0); y.set(y0); x.set(j, x.get(j) + k);
\* m_fdm.Run(); y.get(i).  For the points at -h and -2*h the code subtracts,
\* which rounds like the sum with -k.
StencilPoint(fdm, y, x, y0, x0, i, j, k, r) ==
    LET restored  == CvSet(CvSet(fdm, x, x0), y, y0)
        perturbed == CvSetAt(restored, x, j, Rnd(CvGet(restored, x)[j] + k))
    IN  Only({ [fdm |-> after, f |-> CvGet(after, y)[i]] :
                   after \in {FGFDMExec_Run(perturbed, r)} })

\* the stencil with the weight 8 on the outer pair instead of the inner one
JacobianEntry_WeightsSwapped(fdm, y, x, y0, x0, hh, i, j, r) ==
    Only({ Only({ Only({ Only({
        [fdm |-> CvSet(CvSet(pn2.fdm, x, x0), y, y0),
         J   |-> [num |-> Rnd(Rnd(8 * Rnd(p2.f - pn2.f)) - Rnd(p1.f - pn1.f)),
                  den |-> Rnd(12 * hh)],
         f   |-> <<p1.f, p2.f, pn1.f, pn2.f>>]
        : pn2 \in {StencilPoint(pn1.fdm, y, x, y0, x0, i, j, -Rnd(2 * hh), r)} })
        : pn1 \in {StencilPoint(p2.fdm, y, x, y0, x0, i, j, -hh, r)} })
        : p2 \in {StencilPoint(p1.fdm, y, x, y0, x0, i, j, Rnd(2 * hh), r)} })
        : p1 \in {StencilPoint(fdm, y, x, y0, x0, i, j, hh, r)} })

\* The body of the inner loop of numericalJacobian: the four stencil points
\* f1, f2, fn1, fn2 (p1, p2, pn1, pn2, each run on the simulation the one
\* before it left), the entry (8*(f1-fn1)-(f2-fn2))/(12*h) as a fraction,
\* and the final x.set(x0); y.set(y0).
JacobianEntry(fdm, y, x, y0, x0, hh, i, j, r) ==
    Only({ Only({ Only({ Only({
        [fdm |-> CvSet(CvSet(pn2.fdm, x, x0), y, y0),
         J   |-> [num |-> Rnd(Rnd(8 * Rnd(p1.f - pn1.f)) - Rnd(p2.f - pn2.f)),
                  den |-> Rnd(12 * hh)],
         f   |-> <<p1.f, p2.f, pn1.f, pn2.f>>]
        : pn2 \in {StencilPoint(pn1.fdm, y, x, y0, x0, i, j, -Rnd(2 * hh), r)} })
        : pn1 \in {StencilPoint(p2.fdm, y, x, y0, x0, i, j, -hh, r)} })
        : p2 \in {StencilPoint(p1.fdm, y, x, y0, x0, i, j, Rnd(2 * hh), r)} })
        : p1 \in {StencilPoint(fdm, y, x, y0, x0, i, j, hh, r)} })

\* the loops of numericalJacobian from entry number idx on (row by row);
\* done holds the entries computed so far
RECURSIVE JacobianFrom(_, _, _, _, _, _, _, _, _)
JacobianFrom(fdm, y, x, y0, x0, hh, idx, done, r) ==
    IF idx >= Len(y0) * Len(x0) THEN [fdm |-> fdm, entries |-> done]
    ELSE Only({ Only({ JacobianFrom(e.fdm, y, x, y0, x0, hh, idx + 1, upTo, r)
                       : upTo \in {Append(done, [J |-> e.J, f |-> e.f])} })
                : e \in {JacobianEntry(fdm, y, x, y0, x0, hh,
                                       (idx \div Len(x0)) + 1, (idx % Len(x0)) + 1, r)} })

\* FGStateSpace::numericalJacobian: the simulation it leaves, the matrix J
\* (m rows of n fractions) and, for observation, the stencil values read
numericalJacobian(fdm, y, x, y0, x0, hh, r) ==
    LET n == Len(x0)
        m == Len(y0)
    IN  Only({ [fdm |-> all.fdm,
                J   |-> [i \in 1..m |-> [j \in 1..n |-> all.entries[(i - 1) * n + j].J]],
                f   |-> [i \in 1..m |-> [j \in 1..n |-> all.entries[(i - 1) * n + j].f]]]
               : all \in {JacobianFrom(fdm, y, x, y0, x0, hh, 0, <<>>, r)} })

\* one Jacobian of linearize, computed on the simulation the Jacobians before
\* it left (sofar.fdm) and stored under name
ThenJacobian(sofar, name, y, x, y0, x0, r) ==
    Only({ [sofar EXCEPT !.fdm = jac.fdm, !.J = name :> jac.J @@ @,
                         !.f = name :> jac.f @@ @]
           : jac \in {numericalJacobian(sofar.fdm, y, x, y0, x0, h, r)} })

\* a linearize that sets the step size back to what it was on entry
linearize_RestoresDt(fdm, x0, u0, y0, r) ==
    Only({ Only({ Only({ Only({
        [fdm |-> [d.fdm EXCEPT !.dT = fdm.dT],
         A |-> d.J.A, B |-> d.J.B, C |-> d.J.C, D |-> d.J.D,
         fA |-> d.f.A, fB |-> d.f.B, runs |-> d.fdm.runs]
        : d \in {ThenJacobian(c, "D", "y", "u", y0, u0, r)} })
        : c \in {ThenJacobian(b, "C", "y", "x", y0, x0, r)} })
        : b \in {ThenJacobian(a, "B", "x", "u", x0, u0, r)} })
        : a \in {ThenJacobian([fdm |-> [fdm EXCEPT !.dT = h], J |-> <<>>, f |-> <<>>],
                              "A", "x", "x", x0, x0, r)} })

\* FGStateSpace::linearize: Setdt(h), then A = dx/dx, B = dx/du, C = dy/dx,
\* D = dy/du
linearize(fdm, x0, u0, y0, r) ==
    Only({ Only({ Only({ Only({
        [fdm |-> d.fdm, A |-> d.J.A, B |-> d.J.B, C |-> d.J.C, D |-> d.J.D,
         fA |-> d.f.A, fB |-> d.f.B, runs |-> d.fdm.runs]
        : d \in {ThenJacobian(c, "D", "y", "u", y0, u0, r)} })
        : c \in {ThenJacobian(b, "C", "y", "x", y0, x0, r)} })
        : b \in {ThenJacobian(a, "B", "x", "u", x0, u0, r)} })
        : a \in {ThenJacobian([fdm |-> [fdm EXCEPT !.dT = h], J |-> <<>>, f |-> <<>>],
                              "A", "x", "x", x0, x0, r)} })

\* FGStateSpace ss(fdm) with the component vectors filled: the states and the
\* input at rest, no matrix computed yet
FGStateSpace_Constructed ==
    [x |-> <<0, 0>>, u |-> <<0>>, A |-> <<>>, B |-> <<>>, C |-> <<>>, D |-> <<>>,
     fA |-> <<>>, fB |-> <<>>, runs |-> <<>>]

----------------------------------------------------------------------------
(* Exact fractions: a fraction is kept in lowest terms with a positive     *)
(* denominator.                                                            *)

RECURSIVE GCD(_, _)
GCD(a, b) == IF b = 0 THEN a ELSE GCD(b, a % b)

Rat(n, d) ==
    LET g == GCD(Abs(n), Abs(d))
        sgn == IF d < 0 THEN -1 ELSE 1
    IN  [num |-> sgn * (n \div g), den |-> sgn * (d \div g)]

Zero == Rat(0, 1)
One == Rat(1, 1)
Half == Rat(1, 2)

\* five decimals
Decimals == 10^5

RatAdd(a, b) == Rat(a.num * b.den + b.num * a.den, a.den * b.den)
RatSub(a, b) == Rat(a.num * b.den - b.num * a.den, a.den * b.den)
RatMul(a, b) == Rat(a.num * b.num, a.den * b.den)
RatDiv(a, b) == Rat(a.num * b.den, a.den * b.num)
RatLess(a, b) == a.num * b.den < b.num * a.den
RatAbs(a) == [a EXCEPT !.num = Abs(a.num)]

----------------------------------------------------------------------------
(* FGMassBalance: the inertia tensor of the vehicle and its point masses.  *)
(* A weight is an integer count of 1e-6 lb, a mass an integer count of     *)
(* slugs, a structural coordinate an integer count of inches and a body    *)
(* coordinate an integer count of feet.                                    *)

\* slugtolb = 32.174049, in 1e-6 lb per slug
slugtolb == 32174049

\* inchtoft = 1/12: the feet of a whole number of inches
InchToFt(n) == n \div 12

MatAdd(A, B) == [i \in 1..3 |-> [j \in 1..3 |-> A[i][j] + B[i][j]]]

IdentityMat == <<<<1, 0, 0>>, <<0, 1, 0>>, <<0, 0, 1>>>>

Det3(M) ==
      M[1][1] * (M[2][2] * M[3][3] - M[2][3] * M[3][2])
    - M[1][2] * (M[2][1] * M[3][3] - M[2][3] * M[3][1])
    + M[1][3] * (M[2][1] * M[3][2] - M[2][2] * M[3][1])

\* the adjugate of M: M * Adj3(M) = Det3(M) * identity
Adj3(M) ==
    LET Minor(i, j) ==
            LET
                a == IF i = 1 THEN 2 ELSE 1
                b == IF i = 3 THEN 2 ELSE 3
                cc == IF j = 1 THEN 2 ELSE 1
                d == IF j = 3 THEN 2 ELSE 3
            IN  M[a][cc] * M[b][d] - M[a][d] * M[b][cc]
        Sign(i, j) == IF (i + j) % 2 = 0 THEN 1 ELSE -1
    IN  [i \in 1..3 |-> [j \in 1..3 |-> Sign(i, j) * Minor(j, i)]]

\* FGMatrix33::Inverse, kept as the adjugate and the determinant that divides
\* it; a singular matrix has the zero matrix for inverse
Inverse(M) ==
    IF Det3(M) = 0 THEN [adj |-> ZeroMat, det |-> 1]
    ELSE [adj |-> Adj3(M), det |-> Det3(M)]

\* FGMassBalance::StructuralToBody: structural inches (x aft, z up) to body
\* feet about the centre of gravity
StructuralToBody(self, r) ==
    << InchToFt(self.vXYZcg[1] - r[1]),
       InchToFt(r[2] - self.vXYZcg[2]),
       InchToFt(self.vXYZcg[3] - r[3]) >>

\* the products of inertia entered with the sign of the moments
GetPointmassInertia_PositiveProducts(self, slugs, r) ==
    LET v  == StructuralToBody(self, r)
        sv == VecScale(slugs, v)
        xx == sv[1] * v[1]
        yy == sv[2] * v[2]
        zz == sv[3] * v[3]
        xy == sv[1] * v[2]
        xz == sv[1] * v[3]
        yz == sv[2] * v[3]
    IN  << <<yy + zz, xy, xz>>,
           <<xy, xx + zz, yz>>,
           <<xz, yz, xx + yy>> >>

\* FGMassBalance::GetPointmassInertia
GetPointmassInertia(self, slugs, r) ==
    LET v  == StructuralToBody(self, r)
        sv == VecScale(slugs, v)
        xx == sv[1] * v[1]
        yy == sv[2] * v[2]
        zz == sv[3] * v[3]
        xy == -(sv[1] * v[2])
        xz == -(sv[1] * v[3])
        yz == -(sv[2] * v[3])
    IN  << <<yy + zz, xy, xz>>,
           <<xy, xx + zz, yz>>,
           <<xz, yz, xx + yy>> >>

\* FGMatrix33::InitMatrix on a matrix of fractions
ZeroInertia == [i \in 1..3 |-> [j \in 1..3 |-> Zero]]

\* PointMass(w, vXYZ): the constructor assigns every member but eShapeType
\* (and Name)
PointMass(w, vXYZ) ==
    [Weight |-> w, Location |-> vXYZ, mPMInertia |-> ZeroInertia,
     Radius |-> 0, Length |-> 0]

\* the enumeration esShape
Shapes == {"esUnspecified", "esTube", "esCylinder", "esSphere", "esBall"}

\* what an eShapeType never assigned can hold: an enumerator or any other
\* number
IndeterminateShapes == Shapes \cup {"none of the enumerators"}

\* a fraction of whole feet
Feet(n) == Rat(n, 1)

\* the assignments of case esSphere, which has no break
SphereCase(self) ==
    LET I == RatMul(RatMul(RatMul(Rat(self.Weight, slugtolb * 3), Feet(self.Radius)),
                           Feet(self.Radius)), Feet(2))
    IN  [self EXCEPT !.mPMInertia[1][1] = I, !.mPMInertia[2][2] = I,
                     !.mPMInertia[3][3] = I]

\* the assignments of case esBall
BallCase(self) ==
    LET I == RatMul(RatMul(RatMul(Rat(self.Weight, slugtolb * 5), Feet(self.Radius)),
                           Feet(self.Radius)), Feet(2))
    IN  [self EXCEPT !.mPMInertia[1][1] = I, !.mPMInertia[2][2] = I,
                     !.mPMInertia[3][3] = I]

\* the sum a*r*r + l*l of the transverse inertias
Transverse(a, r, l) == RatAdd(RatMul(RatMul(Feet(a), Feet(r)), Feet(r)), RatMul(Feet(l), Feet(l)))

\* the switch with a break at the end of case esSphere
CalculateShapeInertia_SphereBreaks(self) ==
    CASE self.eShapeType = "esSphere" -> SphereCase(self)
      [] self.eShapeType = "esBall" -> BallCase(self)
      [] OTHER -> self

\* the switch with the transverse inertia of the cylinder for the tube
CalculateShapeInertia_TubeLikeCylinder(self) ==
    CASE self.eShapeType \in {"esTube", "esCylinder"} ->
             LET Iyy == RatMul(Rat(self.Weight, slugtolb * 12),
                               Transverse(3, self.Radius, self.Length))
             IN  [self EXCEPT
                    !.mPMInertia[1][1] =
                        RatMul(RatMul(Rat(self.Weight, slugtolb * 2), Feet(self.Radius)),
                               Feet(self.Radius)),
                    !.mPMInertia[2][2] = Iyy, !.mPMInertia[3][3] = Iyy]
      [] self.eShapeType \in {"esSphere", "esBall"} -> BallCase(self)
      [] OTHER -> self

\* PointMass::CalculateShapeInertia: the switch on eShapeType; case esSphere
\* runs on into case esBall
CalculateShapeInertia(self) ==
    CASE self.eShapeType = "esTube" ->
             LET Iyy == RatMul(Rat(self.Weight, slugtolb * 12),
                               Transverse(6, self.Radius, self.Length))
             IN  [self EXCEPT
                    !.mPMInertia[1][1] =
                        RatMul(RatMul(Rat(self.Weight, slugtolb), Feet(self.Radius)),
                               Feet(self.Radius)),
                    !.mPMInertia[2][2] = Iyy, !.mPMInertia[3][3] = Iyy]
      [] self.eShapeType = "esCylinder" ->
             LET Iyy == RatMul(Rat(self.Weight, slugtolb * 12),
                               Transverse(3, self.Radius, self.Length))
             IN  [self EXCEPT
                    !.mPMInertia[1][1] =
                        RatMul(RatMul(Rat(self.Weight, slugtolb * 2), Feet(self.Radius)),
                               Feet(self.Radius)),
                    !.mPMInertia[2][2] = Iyy, !.mPMInertia[3][3] = Iyy]
      [] self.eShapeType = "esSphere" -> BallCase(SphereCase(self))
      [] self.eShapeType = "esBall" -> BallCase(self)
      [] OTHER -> self

\* PointMass::SetPointMassShapeType, SetRadius, SetLength, SetPointMassWeight
PointMass_SetPointMassShapeType(self, st) == [self EXCEPT !.eShapeType = st]

PointMass_SetRadius(self, r) == [self EXCEPT !.Radius = r]

PointMass_SetLength(self, l) == [self EXCEPT !.Length = l]

PointMass_SetPointMassWeight(self, wt) == [self EXCEPT !.Weight = wt]

\* no PointMass structure allocated yet
NoPointMass == [eShapeType |-> "no point mass"]

\* FGMassBalance::CalculatePMInertias: the sum of the contributions of the
\* point masses (none has a shape, so none adds an inertia of its own)
RECURSIVE CalculatePMInertias(_, _)
CalculatePMInertias(self, i) ==
    IF i > Len(self.PointMasses) THEN ZeroMat
    ELSE MatAdd(GetPointmassInertia(self, self.PointMasses[i].Weight \div slugtolb,
                                    self.PointMasses[i].Location),
                CalculatePMInertias(self, i + 1))

\* the part of FGMassBalance::Run that recomputes the tensors:
\* mJ = baseJ + the point masses, mJinv = its inverse
Recompute(self) ==
    LET J == MatAdd(self.baseJ, CalculatePMInertias(self, 1))
    IN  [self EXCEPT !.mJ = J, !.mJinv = Inverse(J)]

FGMassBalance_Run(self, nothingToDo, hold) ==
    IF nothingToDo \/ hold THEN self ELSE Recompute(self)

\* FGMassBalance::GetJ
FGMassBalance_GetJ(self) == self.mJ

\* FGMassBalance::GetJinv
FGMassBalance_GetJinv(self) == self.mJinv

\* FGMassBalance::SetAircraftBaseInertias
FGMassBalance_SetAircraftBaseInertias(self, BaseJ) == [self EXCEPT !.baseJ = BaseJ]

\* PointMass::SetPointMassWeight on point mass number i
SetPointMassWeight(self, i, wt) == [self EXCEPT !.PointMasses[i].Weight = wt]

\* FGMassBalance::AddPointMass: the list changes, so the tensors are
\* recomputed
FGMassBalance_AddPointMass(self, w, vXYZ) ==
    Recompute([self EXCEPT !.PointMasses = Append(@, PointMass(w, vXYZ))])

\* FGMassBalance(FGFDMExec*): no point mass, every matrix and vector zero
FGMassBalance_Constructed ==
    [baseJ |-> ZeroMat, mJ |-> ZeroMat, mJinv |-> [adj |-> ZeroMat, det |-> 1],
     vXYZcg |-> ZeroVec, PointMasses |-> <<>>]

----------------------------------------------------------------------------
(* FGFunction: a tree of operations over values and properties.  A value   *)
(* is a fraction in lowest terms with a positive denominator; the          *)
(* transcendental operations are tabulated to five decimals at the         *)
(* arguments 1/2 and 1.                                                    *)

\* the operations by the number of arguments they take
NaryTypes == {"sum", "difference", "product", "abs", "min", "max", "avg"}
BinaryTypes == {"quotient", "pow", "exp", "atan2"}
UnaryTypes == {"log2", "ln", "log10", "sin", "cos", "tan", "asin", "acos", "atan"}
Types == NaryTypes \cup BinaryTypes \cup UnaryTypes

\* every operation takes any number of arguments
Takes_AnyNumber(type, n) == TRUE

\* the number of arguments an operation takes
Takes(type, n) ==
    CASE type \in BinaryTypes -> n = 2
      [] type \in UnaryTypes -> n = 1
      [] OTHER -> TRUE

IsLeaf(el) == el.Type \in {"value", "property"}

\* <value> v </value> and <property> name </property>
ValueElement(v) == [Type |-> "value", Value |-> v]
PropertyElement(name) == [Type |-> "property", Name |-> name]

\* an operation element with its child elements
Operation(type, children) == [Type |-> type, children |-> children]

\* the constructor accepts the element: every operation in it has the
\* number of children it takes
RECURSIVE Loads(_)
Loads(el) ==
    \/ IsLeaf(el)
    \/ /\ Takes(el.Type, Len(el.children))
       /\ \A i \in 1..Len(el.children) : Loads(el.children[i])

\* FGFunction(PropertyManager, element): one parameter per child element,
\* nothing cached
RECURSIVE Constructed(_)
Constructed(el) ==
    IF IsLeaf(el) THEN el
    ELSE [Type |-> el.Type,
          Parameters |-> [i \in 1..Len(el.children) |-> Constructed(el.children[i])],
          cached |-> FALSE, cachedValue |-> Zero]

\* the tabulated operations, at 1/2 and at 1
Tabulated(type, x) ==
    LET at == CASE type = "sin"   -> <<47943, 84147>>
                [] type = "cos"   -> <<87758, 54030>>
                [] type = "tan"   -> <<54630, 155741>>
                [] type = "asin"  -> <<52360, 157080>>
                [] type = "acos"  -> <<104720, 0>>
                [] type = "atan"  -> <<46365, 78540>>
                [] type = "atan2" -> <<46365, 78540>>
                [] type = "log2"  -> <<-100000, 0>>
                [] type = "ln"    -> <<-69315, 0>>
                [] type = "log10" -> <<-30103, 0>>
                [] type = "exp"   -> <<164872, 271828>>
    IN  CASE x = Half -> Rat(at[1], Decimals)
          [] x = One -> Rat(at[2], Decimals)

\* the operation applied to the value so far and the next child's value
Apply(type, temp, v) ==
    CASE type = "sum" -> RatAdd(temp, v)
      [] type = "difference" -> RatSub(temp, v)
      [] type = "product" -> RatMul(temp, v)
      [] type = "quotient" -> RatDiv(temp, v)
      [] type = "abs" -> RatAdd(temp, RatAbs(v))
      [] type = "avg" -> RatAdd(temp, v)
      [] type = "min" -> IF RatLess(v, temp) THEN v ELSE temp
      [] type = "max" -> IF RatLess(temp, v) THEN v ELSE temp
      [] type = "pow" -> (CASE v = One -> temp)
      [] type = "atan2" -> (CASE v = One -> temp)
      [] type = "exp" -> temp

\* the fold that stops before the last child
RECURSIVE Fold_WithoutLast(_, _, _, _)
Fold_WithoutLast(type, vals, i, temp) ==
    IF i >= Len(vals) THEN temp
    ELSE Fold_WithoutLast(type, vals, i + 1, Apply(type, temp, vals[i]))

\* the children from the second on, folded in their order into the value
\* of the first
RECURSIVE Fold(_, _, _, _)
Fold(type, vals, i, temp) ==
    IF i > Len(vals) THEN temp
    ELSE Fold(type, vals, i + 1, Apply(type, temp, vals[i]))

\* the value of an operation from the values of its children
Evaluate(type, vals) ==
    LET first == IF type = "abs" THEN RatAbs(vals[1]) ELSE vals[1]
        temp == Fold(type, vals, 2, first)
    IN  CASE type = "avg" -> RatDiv(temp, Rat(Len(vals), 1))
          [] type \in UnaryTypes \cup {"atan2", "exp"} -> Tabulated(type, temp)
          [] OTHER -> temp

\* FGFunction::GetValue (FGParameter::GetValue for a value or a property)
RECURSIVE GetValue(_, _)
GetValue(fn, props) ==
    CASE fn.Type = "value" -> fn.Value
      [] fn.Type = "property" -> props[fn.Name]
      [] OTHER ->
            IF fn.cached THEN fn.cachedValue
            ELSE Evaluate(fn.Type,
                          [i \in 1..Len(fn.Parameters) |-> GetValue(fn.Parameters[i], props)])

\* the flag is set and the stored value is left as it was
cacheValue_FlagOnly(fn, shouldCache, props) == [fn EXCEPT !.cached = shouldCache]

\* FGFunction::cacheValue
cacheValue(fn, shouldCache, props) ==
    LET off == [fn EXCEPT !.cached = FALSE]
    IN  IF shouldCache
        THEN [off EXCEPT !.cachedValue = GetValue(off, props), !.cached = TRUE]
        ELSE off

\* the example of the class documentation:
\* <sum> <value> 3.14159 </value> <property> velocities/qbar </property>
\*   <product> <value> 0.125 </value> <property> metrics/wingarea </property>
\*   </product> </sum>
Example ==
    Operation("sum",
        << ValueElement(Rat(314159, Decimals)), PropertyElement("qbar"),
           Operation("product", << ValueElement(Rat(125, 1000)), PropertyElement("wingarea") >>) >>)

----------------------------------------------------------------------------
(* The integration of FGPropagate: the four integrated quantities, each    *)
(* with its history of four derivatives and its integrator.  The unit of   *)
(* time here is 1/24 of a tick of the step size, so that the halves,       *)
(* twelfths and twenty-fourths of the integrators are whole; a derivative  *)
(* is an integer and a value an integer count of derivative units times    *)
(* that unit of time.                                                      *)

SeqAdd(u, v) == [i \in 1..Len(u) |-> u[i] + v[i]]
SeqScale(k, v) == [i \in 1..Len(v) |-> k * v[i]]

\* enum eIntegrateType
IntegrateTypes ==
    {"eNone", "eRectEuler", "eTrapezoidal", "eAdamsBashforth2", "eAdamsBashforth3",
     "eAdamsBashforth4"}

\* FGPropagate::Integrate: the derivative Val goes to the front of the
\* history ValDot, the oldest entry leaves, and the integrand advances by dt
\* times the weighted derivatives (written here in 24ths)
Integrate(Integrand, Val, ValDot, dt, integration_type) ==
    LET h0 == PushFront(ValDot, Val)
        W(a, b, c, d) ==
            SeqAdd(SeqAdd(SeqScale(a, h0[1]), SeqScale(b, h0[2])),
                   SeqAdd(SeqScale(c, h0[3]), SeqScale(d, h0[4])))
        weighted ==
            CASE integration_type = "eRectEuler" -> W(24, 0, 0, 0)
              [] integration_type = "eTrapezoidal" -> W(12, 12, 0, 0)
              [] integration_type = "eAdamsBashforth2" -> W(36, -12, 0, 0)
              [] integration_type = "eAdamsBashforth3" -> W(46, -32, 10, 0)
              [] integration_type = "eAdamsBashforth4" -> W(55, -59, 37, -9)
              [] integration_type = "eNone" -> W(0, 0, 0, 0)
    IN  [ValDot |-> h0, Integrand |-> SeqAdd(Integrand, SeqScale(dt, weighted))]

\* the rate with the rotation of the frame added
CalculatePQRdot_FrameRate(vPQR, vMoments, J) ==
    LET w == VecAdd(vPQR, <<0, 0, 1>>)
        Jinv == Inverse(J)
    IN  [i \in 1..3 |-> MatVec(Jinv.adj, VecSub(vMoments, Cross(w, MatVec(J, w))))[i] \div Jinv.det]

\* FGPropagate::CalculatePQRdot:
\* vPQRdot = Jinv * (vMoments - vPQR x (J * vPQR))
CalculatePQRdot(vPQR, vMoments, J) ==
    LET Jinv == Inverse(J)
    IN  [i \in 1..3 |->
            MatVec(Jinv.adj, VecSub(vMoments, Cross(vPQR, MatVec(J, vPQR))))[i] \div Jinv.det]

\* FGPropagate(FGFDMExec*): Adams-Bashforth 2 for the rates, trapezoidal for
\* the positions; nothing initialised
Motion_Constructed ==
    [ vPQR |-> ZeroVec, vUVW |-> ZeroVec, qAttitudeECI |-> IdentityQuat,
      vInertialPosition |-> ZeroVec, vPQRdot |-> ZeroVec, J |-> ZeroMat,
      dqPQRdot |-> <<>>, dqUVWdot |-> <<>>, dqQtrndot |-> <<>>, dqInertialVelocity |-> <<>>,
      integrator_rotational_rate |-> "eAdamsBashforth2",
      integrator_translational_rate |-> "eAdamsBashforth2",
      integrator_rotational_position |-> "eTrapezoidal",
      integrator_translational_position |-> "eTrapezoidal" ]

\* FGPropagate::InitModel and the initial condition ic: the quantities are
\* those of ic and the histories are resized to four entries, as in
\* FGPropagate_InitModel; J is the inertia tensor the mass model supplies
Motion_InitModel(self, ic, J) ==
    [self EXCEPT
        !.J = J,
        !.vPQR = ic.vPQR, !.vUVW = ic.vUVW, !.qAttitudeECI = ic.qAttitudeECI,
        !.vInertialPosition = ic.vInertialPosition, !.vPQRdot = ZeroVec,
        !.dqPQRdot = Resize(<<>>, 4, <<0, 0, 0>>),
        !.dqUVWdot = Resize(<<>>, 4, <<0, 0, 0>>),
        !.dqInertialVelocity = Resize(<<>>, 4, <<0, 0, 0>>),
        !.dqQtrndot = Resize(<<>>, 4, QuatFromEuler(<<0, 0, 0>>))]

\* the derivatives of one step: the angular acceleration is computed, the
\* other three come from the forces and the state and are inputs (d)
Derivatives(self, vMoments, d) ==
    [ vPQR |-> CalculatePQRdot(self.vPQR, vMoments, self.J),
      vUVW |-> d,
      qAttitudeECI |-> <<0, d[1], d[2], d[3]>>,
      vInertialPosition |-> d ]

\* the integrating part of FGPropagate::Run
Motion_Run(self, nothingToDo, hold, dt, vMoments, d) ==
    IF nothingToDo \/ hold THEN self
    ELSE LET dot == Derivatives(self, vMoments, d)
             pqr == Integrate(self.vPQR, dot.vPQR, self.dqPQRdot, dt,
                              self.integrator_rotational_rate)
             uvw == Integrate(self.vUVW, dot.vUVW, self.dqUVWdot, dt,
                              self.integrator_translational_rate)
             quat == Integrate(self.qAttitudeECI, dot.qAttitudeECI, self.dqQtrndot, dt,
                               self.integrator_rotational_position)
             pos == Integrate(self.vInertialPosition, dot.vInertialPosition,
                              self.dqInertialVelocity, dt,
                              self.integrator_translational_position)
         IN  [self EXCEPT
                !.vPQRdot = dot.vPQR,
                !.vPQR = pqr.Integrand, !.dqPQRdot = pqr.ValDot,
                !.vUVW = uvw.Integrand, !.dqUVWdot = uvw.ValDot,
                !.qAttitudeECI = quat.Integrand, !.dqQtrndot = quat.ValDot,
                !.vInertialPosition = pos.Integrand, !.dqInertialVelocity = pos.ValDot]

\* FGPropagate::GetPQRdot
GetPQRdot(self) == self.vPQRdot

\* the four integrated quantities
Quantities == {"vPQR", "vUVW", "qAttitudeECI", "vInertialPosition"}

\* no step since InitModel
NoSteps(self) ==
    [N |-> 0, dt |-> 0, steady |-> TRUE,
     x0 |-> [q \in Quantities |-> self[q]],
     d |-> [q \in Quantities |-> SeqScale(0, self[q])]]

----------------------------------------------------------------------------
(* FGSimplexTrim: the constructor that trims the aircraft with a           *)
(* Nelder-Mead solver and then linearizes it.  The constructor is followed *)
(* statement by statement; pc names the statement it is at.                *)

\* fdm.Setdt(1./120): 833 whole ticks of 1e-5 s (and a third)
OneOver120 == 833

\* enum TrimMode
TrimModes == {"tLongitudinal", "tRoll", "tPullup", "tTurn"}

\* FGNelderMead * solver; declared without a value
UnassignedSolver == [assigned |-> FALSE, status |-> 0, calls |-> <<>>]

\* the constructor not entered yet
NoTrim ==
    [pc |-> "not started", mode |-> "tLongitudinal",
     constraints |-> [rollRate |-> 0, pitchRate |-> 0, yawRate |-> 0,
                      stabAxisRoll |-> FALSE],
     loops |-> 0, solver |-> UnassignedSolver, trace |-> <<>>, callerRuns |-> <<>>]

\* the constructor up to the mode menu: Setdt(1./120) and the declaration
\* of the constraints, which hold what FGTrimmer::Constraints() leaves in
\* them (defaults)
FGSimplexTrim_Enter(t, mode, defaults) ==
    [t EXCEPT !.pc = "mode menu", !.mode = mode, !.constraints = defaults,
              !.trace = <<"Setdt(1./120)">>]

\* the mode menu whose body leaves the three rates as they were
ModeMenu_KeepsRates(t, prompted, eulerRates, turnRate) ==
    LET c0 == t.constraints
        at == [t EXCEPT !.loops = @ + 1, !.trace = Append(@, "mode menu")]
    IN  CASE t.mode = "tLongitudinal" -> [at EXCEPT !.pc = "solve", !.constraints = c0]
          [] t.mode = "tRoll" ->
               [at EXCEPT !.pc = "solve",
                          !.constraints = [c0 EXCEPT !.rollRate = eulerRates[1],
                                                     !.stabAxisRoll = TRUE]]
          [] t.mode = "tPullup" ->
               [at EXCEPT !.pc = "solve",
                          !.constraints = [c0 EXCEPT !.pitchRate = eulerRates[2]]]
          [] t.mode = "tTurn" ->
               [at EXCEPT !.pc = "solve",
                          !.constraints = [c0 EXCEPT !.yawRate = turnRate]]
          [] OTHER -> [at EXCEPT !.pc = "exit(1)", !.constraints = c0]

\* One execution of the body of while (1): the three rates are zeroed, then
\* the mode selects the rate it constrains and breaks; no mode continues the
\* loop, an unknown one exits the process.  prompted is what the prompts of
\* the roll and pull-up modes read, eulerRates what GetEulerRates returns and
\* turnRate the value of tan(phi)*gd*cos(theta)/velocity.
ModeMenu(t, prompted, eulerRates, turnRate) ==
    LET c0 == [t.constraints EXCEPT !.rollRate = 0, !.pitchRate = 0, !.yawRate = 0]
        at == [t EXCEPT !.loops = @ + 1, !.trace = Append(@, "mode menu")]
    IN  CASE t.mode = "tLongitudinal" -> [at EXCEPT !.pc = "solve", !.constraints = c0]
          [] t.mode = "tRoll" ->
               LET asked == [c0 EXCEPT !.rollRate = prompted.rate,
                                       !.stabAxisRoll = prompted.flag]
               IN  [at EXCEPT !.pc = "solve",
                              !.constraints = [asked EXCEPT !.rollRate = eulerRates[1],
                                                            !.stabAxisRoll = TRUE]]
          [] t.mode = "tPullup" ->
               LET asked == [c0 EXCEPT !.pitchRate = prompted.rate]
               IN  [at EXCEPT !.pc = "solve",
                              !.constraints = [asked EXCEPT !.pitchRate = eulerRates[2]]]
          [] t.mode = "tTurn" ->
               [at EXCEPT !.pc = "solve",
                          !.constraints = [c0 EXCEPT !.yawRate = turnRate]]
          [] OTHER -> [at EXCEPT !.pc = "exit(1)", !.constraints = c0]

\* solver = new FGNelderMead(...) inside the try block: the constructor
\* either throws std::runtime_error, which the catch clause prints (the
\* pointer was never assigned), or gives a solver with its first status
NewSolver(t, throws, status) ==
    IF throws
    THEN [t EXCEPT !.pc = "output",
                   !.trace = @ \o <<"new FGNelderMead", "std::runtime_error">>]
    ELSE [t EXCEPT !.pc = "iterate",
                   !.solver = [assigned |-> TRUE, status |-> status, calls |-> <<>>],
                   !.trace = Append(@, "new FGNelderMead")]

\* one turn of while (solver->status() == 1) solver->update(): the test
\* ends the loop, or update() runs and either throws std::runtime_error or
\* leaves a new status
SolverStep(t, throws, status) ==
    IF t.solver.status # 1
    THEN [t EXCEPT !.pc = "output", !.trace = Append(@, "loop ended")]
    ELSE IF throws
    THEN [t EXCEPT !.pc = "output",
                   !.solver.calls = Append(@, t.solver.status),
                   !.trace = @ \o <<"update", "std::runtime_error">>]
    ELSE [t EXCEPT !.solver.status = status,
                   !.solver.calls = Append(@, t.solver.status),
                   !.trace = Append(@, "update")]

\* what solver->getSolution() can do: on an assigned solver it returns the
\* solution, which printSolution and eval use or reject with
\* std::runtime_error; through a pointer never assigned the behaviour is
\* undefined: the read can also end the process
Outcomes(t) ==
    IF t.solver.assigned THEN {"solution", "std::runtime_error"}
    ELSE {"solution", "std::runtime_error", "crash"}

\* the second try block: trimmer.printSolution(solver->getSolution()) and
\* the final cost; a std::runtime_error exits the process
Output(t, outcome) ==
    LET read == Append(t.trace, IF t.solver.assigned THEN "getSolution"
                                ELSE "getSolution of unassigned solver")
    IN  CASE outcome = "solution" -> [t EXCEPT !.pc = "linearize", !.trace = read]
          [] outcome = "std::runtime_error" ->
               [t EXCEPT !.pc = "exit(1)", !.trace = Append(read, "std::runtime_error")]
          [] OTHER -> [t EXCEPT !.pc = "crashed", !.trace = read]

\* the constructor returns after ss.linearize(x0, u0, y0, A, B, C, D) and the
\* output of the matrices
Returns(t) == [t EXCEPT !.pc = "returned", !.trace = Append(@, "linearize")]

\* a step the caller makes after the constructor returned, with the step
\* size dt the simulation holds
CallerRuns(t, dt) == [t EXCEPT !.callerRuns = Append(@, dt)]

----------------------------------------------------------------------------
(* The string utilities.  A string is the sequence of its characters; a    *)
(* size_t is an unsigned integer of 32 bits, kept as a natural of any size *)
(* and reduced modulo 2^32.                                                *)

\* isspace in the "C" locale (the vertical tab is not among the inputs)
isspace(c) == c \in {" ", "\t", "\n", "\f", "\r"}

\* size_t(n) for a small natural n, and the natural of a size_t below Base
SizeT(n) == ToBig(n)

ToNat(i) == IF i = <<>> THEN 0 ELSE i[1]

\* std::string::npos = size_t(-1)
npos == BigSub(TwoTo32, ToBig(1))

\* --i and i++ on a size_t
Decremented(i) == IF i = <<>> THEN npos ELSE BigSub(i, ToBig(1))

Incremented(i) == IF i = npos THEN <<>> ELSE BigAdd(i, ToBig(1))

\* i < n on size_t
Below(i, n) == ~BigLeq(n, i)

\* str.erase(pos, n), str.substr(0, n), str.find(d)
erase(str, pos, n) == SubSeq(str, 1, pos) \o SubSeq(str, pos + n + 1, Len(str))

substr(str, n) == SubSeq(str, 1, n)

find(str, d) ==
    IF \E k \in 1..Len(str) : str[k] = d
    THEN SizeT((CHOOSE k \in 1..Len(str) :
                   str[k] = d /\ \A n \in 1..(k - 1) : str[n] # d) - 1)
    ELSE npos

\* trim_left, trim_right, trim
RECURSIVE trim_left(_)
trim_left(str) ==
    IF Len(str) > 0 /\ isspace(str[1]) THEN trim_left(erase(str, 0, 1)) ELSE str

RECURSIVE trim_right(_)
trim_right(str) ==
    IF Len(str) > 0 /\ isspace(str[Len(str)])
    THEN trim_right(erase(str, Len(str) - 1, 1))
    ELSE str

trim(str) == IF Len(str) = 0 THEN str ELSE trim_left(trim_right(str))

\* the loop body of trim_all_space without --i after the erase
trim_all_space_body_NoDecrement(st) ==
    LET k == ToNat(st.i) + 1
    IN  IF isspace(st.str[k])
        THEN [st EXCEPT !.pc = "trim_all_space: i++", !.str = erase(st.str, k - 1, 1),
                        !.inside = @ /\ k \in 1..Len(st.str)]
        ELSE [st EXCEPT !.pc = "trim_all_space: i++",
                        !.inside = @ /\ k \in 1..Len(st.str)]

\* the loop body of trim_all_space: if (isspace(str[i])) { erase(i,1); --i; }
\* inside tells that every str[i] so far was a character of the string,
\* wraps how many times --i went below 0
trim_all_space_body(st) ==
    LET k == ToNat(st.i) + 1
    IN  IF isspace(st.str[k])
        THEN [st EXCEPT !.pc = "trim_all_space: i++", !.str = erase(st.str, k - 1, 1),
                        !.i = Decremented(st.i),
                        !.wraps = IF st.i = SizeT(0) THEN @ + 1 ELSE @,
                        !.inside = @ /\ k \in 1..Len(st.str)]
        ELSE [st EXCEPT !.pc = "trim_all_space: i++",
                        !.inside = @ /\ k \in 1..Len(st.str)]

\* the loop test i < str.size(): the body, or return str
trim_all_space_test(st) ==
    IF Below(st.i, SizeT(Len(st.str))) THEN trim_all_space_body(st)
    ELSE [st EXCEPT !.pc = "done", !.result = st.str]

\* the loop increment i++
trim_all_space_increment(st) ==
    [st EXCEPT !.pc = "trim_all_space: test", !.i = Incremented(st.i)]

\* the characters a number is written with
NumberCharacters ==
    {"+", "-", ".", "0", "1", "2", "3", "4", "5", "6", "7", "8", "9", "E", "e"}

\* str.find_first_not_of(set)
find_first_not_of(str, set) ==
    IF \E k \in 1..Len(str) : str[k] \notin set
    THEN SizeT((CHOOSE k \in 1..Len(str) :
                   str[k] \notin set /\ \A n \in 1..(k - 1) : str[n] \in set) - 1)
    ELSE npos

\* an is_number that wants at least one character
is_number_NotEmpty(str) ==
    Len(str) > 0 /\ find_first_not_of(str, NumberCharacters) = npos

\* is_number
is_number(str) == find_first_not_of(str, NumberCharacters) = npos

\* split up to its loop: trim(str); index = str.find(d)
split_enter(st) ==
    LET str == trim(st.str)
    IN  [st EXCEPT !.pc = "split: loop", !.str = str, !.index = find(str, st.d),
                   !.str_array = <<>>]

\* a loop body of split that pushes the token without trimming it
split_loop_Untrimmed(st) ==
    IF st.index # npos
    THEN LET temp == substr(st.str, ToNat(st.index))
             str  == erase(st.str, 0, ToNat(st.index) + 1)
         IN  [st EXCEPT !.str = str, !.index = find(str, st.d),
                        !.str_array = IF Len(temp) > 0 THEN Append(@, temp) ELSE @]
    ELSE LET temp == trim(st.str)
             all  == IF Len(st.str) > 0 /\ Len(temp) > 0
                     THEN Append(st.str_array, temp) ELSE st.str_array
         IN  [st EXCEPT !.pc = "done", !.str = IF Len(st.str) > 0 THEN temp ELSE @,
                        !.str_array = all, !.result = all]

\* one turn of while (index != npos) in split: the token before the
\* delimiter is trimmed and pushed unless empty, and the string shortened by
\* it and the delimiter; after the loop the rest of the string is trimmed
\* and pushed unless empty, and the array returned
split_loop(st) ==
    IF st.index # npos
    THEN LET temp == trim(substr(st.str, ToNat(st.index)))
             str  == erase(st.str, 0, ToNat(st.index) + 1)
         IN  [st EXCEPT !.str = str, !.index = find(str, st.d),
                        !.str_array = IF Len(temp) > 0 THEN Append(@, temp) ELSE @]
    ELSE LET temp == trim(st.str)
             all  == IF Len(st.str) > 0 /\ Len(temp) > 0
                     THEN Append(st.str_array, temp) ELSE st.str_array
         IN  [st EXCEPT !.pc = "done", !.str = IF Len(st.str) > 0 THEN temp ELSE @,
                        !.str_array = all, !.result = all]

\* no call of a string utility made yet
NoStrings ==
    [pc |-> "idle", fn |-> "none", input |-> <<>>, d |-> ",", str |-> <<>>,
     i |-> SizeT(0), index |-> SizeT(0), str_array |-> <<>>, result |-> <<>>,
     inside |-> TRUE, wraps |-> 0]

\* the call fn(str) or fn(str, d) entered
Entered(fn, str, d) == [NoStrings EXCEPT !.fn = fn, !.input = str, !.d = d, !.str = str]

\* trim_all_space from the position st to its return
RECURSIVE trim_all_space_from(_)
trim_all_space_from(st) ==
    CASE st.pc = "done" -> st.result
      [] st.pc = "trim_all_space: i++" -> trim_all_space_from(trim_all_space_increment(st))
      [] OTHER -> trim_all_space_from(trim_all_space_test(st))

\* trim_all_space
trim_all_space(str) ==
    trim_all_space_from([Entered("trim_all_space", str, ",") EXCEPT
                           !.pc = "trim_all_space: test"])

----------------------------------------------------------------------------
(* The state machine.                                                      *)

NoArg == <<>>

Called(op, arg, ret, nothingToDo, trace) ==
    [op |-> op, arg |-> arg, ret |-> ret, nothingToDo |-> nothingToDo,
     hold |-> holding, trace |-> trace]

\* the coordinates the model holds: small, or on the reference sphere
InRange(v) == \A i \in 1..3 : Abs(v[i]) <= MaxCoord \/ Abs(v[i]) = RadiusReference

Radii == (0..MaxCoord) \cup {RadiusReference}

Locations ==
    {l \in (-MaxCoord..MaxCoord) \X (-MaxCoord..MaxCoord) \X (-MaxCoord..MaxCoord) :
        OnAxis(l)}

UnitDeltas == {<<1, 0, 0>>, <<-1, 0, 0>>, <<0, 1, 0>>, <<0, 0, 1>>}

Init ==
    /\ dT = 1
    /\ holding = FALSE
    /\ inertial = FGInertial_Constructed
    /\ propagate = FGPropagate_Constructed
    /\ last = Called("construct", NoArg, FALSE, FALSE, <<>>)
    /\ executedDt = 0
    /\ nRun = 0
    /\ stateSpace = FGStateSpace_Constructed
    /\ massBalance = FGMassBalance_Constructed
    /\ Function = Constructed(Example)
    /\ properties = [qbar |-> One, wingarea |-> Zero]
    /\ valueWhenCached = Zero
    /\ motion = Motion_Constructed
    /\ since = NoSteps(Motion_Constructed)
    /\ pointMass = NoPointMass
    /\ simplexTrim = NoTrim
    /\ strings = NoStrings

\* FGFDMExec::Setdt
Setdt ==
    \E d \in 0..MaxDt :
        /\ dT' = d
        /\ last' = Called("Setdt", NoArg, FALSE, FALSE, <<>>)
        /\ UNCHANGED <<holding, inertial, propagate, executedDt, nRun>>
        /\ UNCHANGED analysis

\* FGFDMExec::Hold
Hold ==
    /\ holding' = TRUE
    /\ last' = Called("Hold", NoArg, FALSE, FALSE, <<>>)
    /\ UNCHANGED <<dT, inertial, propagate, executedDt, nRun>>
    /\ UNCHANGED analysis

\* FGFDMExec::Resume
Resume ==
    /\ holding' = FALSE
    /\ last' = Called("Resume", NoArg, FALSE, FALSE, <<>>)
    /\ UNCHANGED <<dT, inertial, propagate, executedDt, nRun>>
    /\ UNCHANGED analysis

InertialInitModel ==
    \E baseOk \in BOOLEAN :
        LET r == FGInertial_InitModel(inertial, baseOk)
        IN  /\ inertial' = r.self
            /\ last' = Called("FGInertial::InitModel", baseOk, r.ret, FALSE, <<>>)
            /\ executedDt' = IF baseOk THEN 0 ELSE executedDt
            /\ UNCHANGED <<dT, holding, propagate, nRun>>
            /\ UNCHANGED analysis

InertialRun ==
    /\ nRun < MaxRuns
    /\ \E nothingToDo \in BOOLEAN :
        LET r == FGInertial_Run(inertial, nothingToDo, holding, dT,
                                FGPropagate_GetRadius(propagate))
        IN  /\ inertial' = r.self
            /\ last' = Called("FGInertial::Run", NoArg, r.ret, nothingToDo, r.trace)
            /\ executedDt' =
                 IF ~nothingToDo /\ ~holding THEN executedDt + dT ELSE executedDt
            /\ nRun' = nRun + 1
            /\ UNCHANGED <<dT, holding, propagate>>
            /\ UNCHANGED analysis

\* a call of the const method GetGAccel
InertialGetGAccel ==
    \E r \in Radii \ {0} :
        /\ last' = Called("FGInertial::GetGAccel", r,
                          FGInertial_GetGAccel(inertial, r), FALSE, <<>>)
        /\ UNCHANGED <<dT, holding, inertial, propagate, executedDt, nRun>>
        /\ UNCHANGED analysis

\* a call of the const method GetGravityJ2 at the vehicle's position, off the
\* centre
InertialGetGravityJ2 ==
    LET position == propagate.VState.vLocation
    IN  /\ position # ZeroVec
        /\ last' = Called("FGInertial::GetGravityJ2", NoArg,
                          FGInertial_GetGravityJ2(inertial, position, SinLat(position)),
                          FALSE, <<>>)
        /\ UNCHANGED <<dT, holding, inertial, propagate, executedDt, nRun>>
        /\ UNCHANGED analysis

PropagateInitModel ==
    \E baseOk \in BOOLEAN, ic \in StateSamples :
        /\ propagate' = FGPropagate_InitModel(propagate, baseOk, ic)
        /\ last' = Called("FGPropagate::InitModel", NoArg, baseOk, FALSE, <<>>)
        /\ UNCHANGED <<dT, holding, inertial, executedDt, nRun>>
        /\ UNCHANGED analysis

PropagateRun ==
    /\ Len(propagate.VState.dqPQRdot) = 4
    /\ \E nothingToDo \in BOOLEAN, next \in StateSamples, d \in Derivs :
        LET r == FGPropagate_Run(propagate, nothingToDo, holding, next, d)
        IN  /\ propagate' = r.self
            /\ last' = Called("FGPropagate::Run", NoArg, r.ret, nothingToDo, <<>>)
            /\ UNCHANGED <<dT, holding, inertial, executedDt, nRun>>
            /\ UNCHANGED analysis

SetVState ==
    \E vstate \in StateSamples :
        /\ propagate' = FGPropagate_SetVState(propagate, vstate)
        /\ last' = Called("SetVState", vstate, FALSE, FALSE, <<>>)
        /\ UNCHANGED <<dT, holding, inertial, executedDt, nRun>>
        /\ UNCHANGED analysis

SetLongitude ==
    \E lon \in 0..3 :
        /\ propagate' = FGPropagate_SetLongitude(propagate, lon)
        /\ last' = Called("SetLongitude", NoArg, FALSE, FALSE, <<>>)
        /\ UNCHANGED <<dT, holding, inertial, executedDt, nRun>>
        /\ UNCHANGED analysis

SetLatitude ==
    \E lat \in {-1, 0, 1} :
        /\ propagate' = FGPropagate_SetLatitude(propagate, lat)
        /\ last' = Called("SetLatitude", NoArg, FALSE, FALSE, <<>>)
        /\ UNCHANGED <<dT, holding, inertial, executedDt, nRun>>
        /\ UNCHANGED analysis

SetRadius ==
    \E r \in Radii :
        /\ propagate' = FGPropagate_SetRadius(propagate, r)
        /\ last' = Called("SetRadius", NoArg, FALSE, FALSE, <<>>)
        /\ UNCHANGED <<dT, holding, inertial, executedDt, nRun>>
        /\ UNCHANGED analysis

SetLocation ==
    \E l \in Locations :
        /\ propagate' = FGPropagate_SetLocation(propagate, l)
        /\ last' = Called("SetLocation", NoArg, FALSE, FALSE, <<>>)
        /\ UNCHANGED <<dT, holding, inertial, executedDt, nRun>>
        /\ UNCHANGED analysis

\* the nudges the model can hold: the result stays on an axis and in range
NudgeBodyLocation ==
    \E deltaLoc \in UnitDeltas :
        LET p == FGPropagate_NudgeBodyLocation(propagate, deltaLoc)
        IN  /\ OnAxis(p.VState.vLocation)
            /\ InRange(p.VState.vLocation)
            /\ propagate' = p
            /\ last' = Called("NudgeBodyLocation", NoArg, FALSE, FALSE, <<>>)
            /\ UNCHANGED <<dT, holding, inertial, executedDt, nRun>>
            /\ UNCHANGED analysis

\* The gravitation model under the executive, with the setter of FGPropagate
\* that changes the radius it reads.
Next ==
    \/ Setdt
    \/ Hold
    \/ Resume
    \/ InertialInitModel
    \/ InertialRun
    \/ InertialGetGAccel
    \/ InertialGetGravityJ2
    \/ SetRadius

Spec == Init /\ [][Next]_vars

\* The vehicle state: initialisation, steps and the setters that bypass
\* integration.
NextPropagate ==
    \/ PropagateInitModel
    \/ PropagateRun
    \/ SetVState
    \/ SetLongitude
    \/ SetLatitude
    \/ SetRadius
    \/ SetLocation
    \/ NudgeBodyLocation

SpecPropagate == Init /\ [][NextPropagate]_vars

\* the index arguments of the component setters, as the int the caller
\* holds, and the values set
Indices == (-1)..4

ComponentValues == {5}

\* SetPQR(i, val); the object before the call is kept with the arguments
SetPQR ==
    \E n \in Indices, val \in ComponentValues :
        /\ propagate' = FGPropagate_SetPQR(propagate, ToUnsigned(n), val)
        /\ last' = Called("SetPQR", [self |-> propagate, i |-> n, val |-> val],
                          FALSE, FALSE, <<>>)
        /\ UNCHANGED <<dT, holding, inertial, executedDt, nRun>>
        /\ UNCHANGED analysis

SetUVW ==
    \E n \in Indices, val \in ComponentValues :
        /\ propagate' = FGPropagate_SetUVW(propagate, ToUnsigned(n), val)
        /\ last' = Called("SetUVW", [self |-> propagate, i |-> n, val |-> val],
                          FALSE, FALSE, <<>>)
        /\ UNCHANGED <<dT, holding, inertial, executedDt, nRun>>
        /\ UNCHANGED analysis

\* the first step after an initialisation
FirstRun ==
    /\ \A k \in 1..Len(propagate.VState.dqPQRdot) :
           propagate.VState.dqPQRdot[k] = <<0, 0, 0>>
    /\ PropagateRun

\* The component setters on a vehicle that is initialised and stepped once.
NextRates ==
    \/ PropagateInitModel
    \/ FirstRun
    \/ SetPQR
    \/ SetUVW

SpecRates == Init /\ [][NextRates]_vars

\* the trim solutions of the model: the states and the input at rest, two
\* solutions off rest, and one whose first state is the largest number that
\* a perturbation by h still leaves exact
Solutions ==
    { [x |-> <<0, 0>>, u |-> <<0>>],
      [x |-> <<1, -1>>, u |-> <<1>>],
      [x |-> <<-1, 1>>, u |-> <<0>>],
      [x |-> <<999, 0>>, u |-> <<0>>] }

\* the trim solution loaded into the simulation before the linearization
LoadSolution ==
    \E sol \in Solutions :
        /\ stateSpace' = [stateSpace EXCEPT !.x = sol.x, !.u = sol.u]
        /\ last' = Called("LoadSolution", NoArg, FALSE, FALSE, <<>>)
        /\ UNCHANGED <<dT, holding, inertial, propagate, executedDt, nRun, massBalance, engine,
                     integration, utilities>>

\* ss.linearize(x0, u0, y0, A, B, C, D) with x0 = ss.x.get(), u0 = ss.u.get()
\* and y0 = x0, as the trim program calls it
Linearize ==
    /\ nRun < MaxRuns
    /\ \E l \in {linearize(Fdm(stateSpace), stateSpace.x, stateSpace.u,
                            stateSpace.x, FGPropagate_GetRadius(propagate))} :
           /\ stateSpace' = [x |-> l.fdm.x, u |-> l.fdm.u,
                             A |-> l.A, B |-> l.B, C |-> l.C, D |-> l.D,
                             fA |-> l.fA, fB |-> l.fB, runs |-> l.runs]
           /\ dT' = l.fdm.dT
           /\ inertial' = l.fdm.inertial
           /\ last' = Called("linearize", <<stateSpace.x, stateSpace.u>>,
                             FALSE, FALSE, <<>>)
    /\ nRun' = nRun + 1
    /\ UNCHANGED <<holding, propagate, executedDt, massBalance, engine, integration,
                   utilities>>

\* The linearization interface over the executive.
NextStateSpace ==
    \/ Setdt
    \/ Hold
    \/ Resume
    \/ LoadSolution
    \/ Linearize

SpecStateSpace == Init /\ [][NextStateSpace]_vars

----------------------------------------------------------------------------
(* FGMassBalance under the calls that change the mass configuration and    *)
(* the queries of its tensors.                                            *)

\* the base inertia tensors an aircraft file gives (slug-ft2)
BaseInertias ==
    { << <<2, 0, 0>>, <<0, 3, 0>>, <<0, 0, 4>> >>,
      << <<3, 0, -1>>, <<0, 4, 0>>, <<-1, 0, 5>> >> }

\* the weights a point mass is given: one slug and two slugs
Weights == { slugtolb, 2 * slugtolb }

\* structural locations, in inches; the first is the centre of gravity
PointMassLocations == { <<0, 0, 0>>, <<12, 0, 0>>, <<-12, 24, 12>> }

MassUnchanged ==
    UNCHANGED <<dT, holding, inertial, propagate, executedDt, nRun, stateSpace, engine,
                integration, utilities>>

SetAircraftBaseInertias ==
    \E BaseJ \in BaseInertias :
        /\ massBalance' = FGMassBalance_SetAircraftBaseInertias(massBalance, BaseJ)
        /\ last' = Called("SetAircraftBaseInertias", BaseJ, FALSE, FALSE, <<>>)
        /\ MassUnchanged

AddPointMass ==
    /\ Len(massBalance.PointMasses) < MaxPointMasses
    /\ \E w \in Weights, vXYZ \in PointMassLocations \ {ZeroVec} :
        /\ massBalance' = FGMassBalance_AddPointMass(massBalance, w, vXYZ)
        /\ last' = Called("AddPointMass", <<w, vXYZ>>, FALSE, FALSE, <<>>)
    /\ MassUnchanged

PointMassSetWeight ==
    \E i \in 1..Len(massBalance.PointMasses), wt \in Weights :
        /\ massBalance' = SetPointMassWeight(massBalance, i, wt)
        /\ last' = Called("SetPointMassWeight", <<i, wt>>, FALSE, FALSE, <<>>)
        /\ MassUnchanged

MassBalanceRun ==
    \E nothingToDo \in BOOLEAN :
        /\ massBalance' = FGMassBalance_Run(massBalance, nothingToDo, holding)
        /\ last' = Called("FGMassBalance::Run", NoArg, nothingToDo, nothingToDo, <<>>)
        /\ MassUnchanged

GetJ ==
    /\ last' = Called("GetJ", NoArg, FGMassBalance_GetJ(massBalance), FALSE, <<>>)
    /\ UNCHANGED massBalance
    /\ MassUnchanged

GetJinv ==
    /\ last' = Called("GetJinv", NoArg, FGMassBalance_GetJinv(massBalance), FALSE, <<>>)
    /\ UNCHANGED massBalance
    /\ MassUnchanged

PointmassInertia ==
    \E slugs \in 0..MaxSlugs, r \in PointMassLocations :
        /\ last' = Called("GetPointmassInertia", <<slugs, r>>,
                          GetPointmassInertia(massBalance, slugs, r), FALSE, <<>>)
        /\ UNCHANGED massBalance
        /\ MassUnchanged

NextMass ==
    \/ Hold \/ Resume
    \/ SetAircraftBaseInertias \/ AddPointMass \/ PointMassSetWeight
    \/ MassBalanceRun \/ GetJ \/ GetJinv \/ PointmassInertia

SpecMass == Init /\ [][NextMass]_vars

----------------------------------------------------------------------------
(* One PointMass structure under its constructor, its setters and          *)
(* CalculateShapeInertia.                                                  *)

ShapeUnchanged ==
    UNCHANGED <<dT, holding, inertial, propagate, executedDt, nRun, stateSpace, massBalance,
                engine, integration, simplexTrim, strings>>

\* new PointMass(w, vXYZ); eShapeType holds whatever the memory held
NewPointMass ==
    \E w \in Weights, st \in IndeterminateShapes :
        /\ pointMass' = PointMass(w, <<12, 0, 0>>) @@ [eShapeType |-> st]
        /\ last' = Called("PointMass", w, FALSE, FALSE, <<>>)
        /\ ShapeUnchanged

Allocated == pointMass.eShapeType \in IndeterminateShapes

PointMassSetShapeType ==
    /\ Allocated
    /\ \E st \in Shapes :
        /\ pointMass' = PointMass_SetPointMassShapeType(pointMass, st)
        /\ last' = Called("SetPointMassShapeType", st, FALSE, FALSE, <<>>)
    /\ ShapeUnchanged

PointMassSetRadius ==
    /\ Allocated
    /\ \E r \in 0..MaxFeet :
        /\ pointMass' = PointMass_SetRadius(pointMass, r)
        /\ last' = Called("PointMass::SetRadius", r, FALSE, FALSE, <<>>)
    /\ ShapeUnchanged

PointMassSetLength ==
    /\ Allocated
    /\ \E l \in 0..MaxFeet :
        /\ pointMass' = PointMass_SetLength(pointMass, l)
        /\ last' = Called("PointMass::SetLength", l, FALSE, FALSE, <<>>)
    /\ ShapeUnchanged

PointMassSetOwnWeight ==
    /\ Allocated
    /\ \E wt \in Weights :
        /\ pointMass' = PointMass_SetPointMassWeight(pointMass, wt)
        /\ last' = Called("PointMass::SetPointMassWeight", wt, FALSE, FALSE, <<>>)
    /\ ShapeUnchanged

\* pm->CalculateShapeInertia(); the structure before the call is kept as the
\* argument of the call
PointMassCalculateShapeInertia ==
    /\ Allocated
    /\ pointMass' = CalculateShapeInertia(pointMass)
    /\ last' = Called("CalculateShapeInertia", pointMass, FALSE, FALSE, <<>>)
    /\ ShapeUnchanged

NextShape ==
    \/ NewPointMass \/ PointMassSetShapeType \/ PointMassSetRadius \/ PointMassSetLength
    \/ PointMassSetOwnWeight \/ PointMassCalculateShapeInertia

SpecShape == Init /\ [][NextShape]_vars

----------------------------------------------------------------------------
(* The trim program: a caller that configures a step size, constructs an   *)
(* FGSimplexTrim and steps the simulation afterwards.                      *)

\* a mode value that is none of the enumerators
UnknownMode == "unknown"

\* the values of a rate: the Euler rates and the turn rate the simulation
\* gives, and what an operator types at a prompt
Rates == {0, 1}

Prompted == { [rate |-> 2, flag |-> FALSE] }

\* what a newly declared FGTrimmer::Constraints can hold
DefaultConstraints ==
    { [rollRate |-> 0, pitchRate |-> 0, yawRate |-> 0, stabAxisRoll |-> FALSE],
      [rollRate |-> 3, pitchRate |-> 3, yawRate |-> 3, stabAxisRoll |-> TRUE] }

\* the caller's Setdt before the constructor
CallerSetdt ==
    /\ simplexTrim.pc = "not started"
    /\ Setdt

\* FGSimplexTrim(fdmPtr, mode) up to the mode menu
TrimEnter ==
    /\ simplexTrim.pc = "not started"
    /\ \E mode \in TrimModes \cup {UnknownMode}, defaults \in DefaultConstraints :
        /\ simplexTrim' = FGSimplexTrim_Enter(simplexTrim, mode, defaults)
        /\ last' = Called("FGSimplexTrim", <<mode, dT>>, FALSE, FALSE, <<>>)
    /\ dT' = OneOver120
    /\ UNCHANGED <<holding, inertial, propagate, executedDt, nRun, stateSpace, massBalance,
                   engine, integration, pointMass, strings>>

TrimOnly ==
    UNCHANGED <<dT, holding, inertial, propagate, executedDt, nRun, stateSpace, massBalance,
                engine, integration, pointMass, strings>>

TrimModeMenu ==
    /\ simplexTrim.pc = "mode menu"
    /\ \E prompted \in Prompted, p \in Rates, q \in Rates, turnRate \in Rates :
        /\ simplexTrim' = ModeMenu(simplexTrim, prompted, <<p, q>>, turnRate)
        /\ last' = Called("mode menu", <<prompted, <<p, q>>, turnRate>>, FALSE, FALSE, <<>>)
    /\ TrimOnly

TrimNewSolver ==
    /\ simplexTrim.pc = "solve"
    /\ \E throws \in BOOLEAN, status \in {0, 1} :
        /\ simplexTrim' = NewSolver(simplexTrim, throws, status)
        /\ last' = Called("new FGNelderMead", NoArg, throws, FALSE, <<>>)
    /\ TrimOnly

\* the solver stops by itself after MaxUpdates calls of update()
TrimSolverStep ==
    /\ simplexTrim.pc = "iterate"
    /\ \E throws \in BOOLEAN,
          status \in (IF Len(simplexTrim.solver.calls) + 1 >= MaxUpdates
                      THEN {0} ELSE {0, 1}) :
        /\ simplexTrim' = SolverStep(simplexTrim, throws, status)
        /\ last' = Called("solver step", NoArg, throws, FALSE, <<>>)
    /\ TrimOnly

\* printSolution loads the solution it is given into the simulation
TrimOutput ==
    /\ simplexTrim.pc = "output"
    /\ \E outcome \in Outcomes(simplexTrim), sol \in Solutions :
        /\ simplexTrim' = Output(simplexTrim, outcome)
        /\ stateSpace' = IF outcome = "solution"
                         THEN [stateSpace EXCEPT !.x = sol.x, !.u = sol.u]
                         ELSE stateSpace
        /\ last' = Called("output", NoArg, outcome, FALSE, <<>>)
    /\ UNCHANGED <<dT, holding, inertial, propagate, executedDt, nRun, massBalance,
                   engine, integration, pointMass, strings>>

\* ss.linearize(x0, u0, y0, A, B, C, D) and the return of the constructor;
\* the step size before the call is kept as the argument of the call
TrimLinearize ==
    /\ simplexTrim.pc = "linearize"
    /\ \E l \in {linearize(Fdm(stateSpace), stateSpace.x, stateSpace.u,
                            stateSpace.x, FGPropagate_GetRadius(propagate))} :
           /\ stateSpace' = [x |-> l.fdm.x, u |-> l.fdm.u,
                             A |-> l.A, B |-> l.B, C |-> l.C, D |-> l.D,
                             fA |-> l.fA, fB |-> l.fB, runs |-> l.runs]
           /\ dT' = l.fdm.dT
           /\ inertial' = l.fdm.inertial
    /\ simplexTrim' = Returns(simplexTrim)
    /\ last' = Called("FGSimplexTrim returns", dT, FALSE, FALSE, <<>>)
    /\ UNCHANGED <<holding, propagate, executedDt, nRun, massBalance, engine, integration,
                   pointMass, strings>>

\* fdm.Run() by the caller of the constructor
TrimCallerRun ==
    /\ simplexTrim.pc = "returned"
    /\ nRun < MaxRuns
    /\ \E after \in {FGFDMExec_Run(Fdm(stateSpace), FGPropagate_GetRadius(propagate))} :
           /\ stateSpace' = [stateSpace EXCEPT !.x = after.x]
           /\ inertial' = after.inertial
    /\ simplexTrim' = CallerRuns(simplexTrim, dT)
    /\ nRun' = nRun + 1
    /\ last' = Called("fdm.Run", dT, FALSE, FALSE, <<>>)
    /\ UNCHANGED <<dT, holding, propagate, executedDt, massBalance, engine, integration,
                   pointMass, strings>>

NextTrim ==
    \/ CallerSetdt \/ TrimEnter \/ TrimModeMenu \/ TrimNewSolver \/ TrimSolverStep
    \/ TrimOutput \/ TrimLinearize \/ TrimCallerRun

SpecTrim == Init /\ [][NextTrim]_vars

----------------------------------------------------------------------------
(* The string utilities, one call per run: trim_all_space and split are    *)
(* followed turn by turn of their loops, is_number in one step.            *)

\* the characters of the strings tried, and the delimiters
Characters == {" ", "\t", ",", "a", "+", "E", "1"}

Delimiters == {",", " "}

RECURSIVE StringsUpTo(_)
StringsUpTo(n) ==
    IF n = 0 THEN {<<>>}
    ELSE StringsUpTo(n - 1)
           \cup { Append(str, c) : str \in StringsUpTo(n - 1), c \in Characters }

StringsUnchanged ==
    UNCHANGED <<dT, holding, inertial, propagate, executedDt, nRun, stateSpace, massBalance,
                engine, integration, pointMass, simplexTrim>>

CallTrimAllSpace ==
    /\ strings.pc = "idle"
    /\ \E str \in StringsUpTo(MaxLen) :
        /\ strings' = [Entered("trim_all_space", str, ",") EXCEPT
                          !.pc = "trim_all_space: test"]
        /\ last' = Called("trim_all_space", str, FALSE, FALSE, <<>>)
    /\ StringsUnchanged

TrimAllSpaceTest ==
    /\ strings.pc = "trim_all_space: test"
    /\ strings' = trim_all_space_test(strings)
    /\ last' = Called("trim_all_space: test", NoArg, FALSE, FALSE, <<>>)
    /\ StringsUnchanged

TrimAllSpaceIncrement ==
    /\ strings.pc = "trim_all_space: i++"
    /\ strings' = trim_all_space_increment(strings)
    /\ last' = Called("trim_all_space: i++", NoArg, FALSE, FALSE, <<>>)
    /\ StringsUnchanged

CallSplit ==
    /\ strings.pc = "idle"
    /\ \E str \in StringsUpTo(MaxLen), d \in Delimiters :
        /\ strings' = split_enter(Entered("split", str, d))
        /\ last' = Called("split", <<str, d>>, FALSE, FALSE, <<>>)
    /\ StringsUnchanged

SplitLoop ==
    /\ strings.pc = "split: loop"
    /\ strings' = split_loop(strings)
    /\ last' = Called("split: loop", NoArg, FALSE, FALSE, <<>>)
    /\ StringsUnchanged

CallIsNumber ==
    /\ strings.pc = "idle"
    /\ \E str \in StringsUpTo(MaxLen) :
        /\ strings' = [Entered("is_number", str, ",") EXCEPT
                          !.pc = "done", !.result = is_number(str)]
        /\ last' = Called("is_number", str, FALSE, FALSE, <<>>)
    /\ StringsUnchanged

\* a call in progress
StringsStep == TrimAllSpaceTest \/ TrimAllSpaceIncrement \/ SplitLoop

NextStrings ==
    \/ CallTrimAllSpace \/ TrimAllSpaceTest \/ TrimAllSpaceIncrement
    \/ CallSplit \/ SplitLoop
    \/ CallIsNumber

SpecStrings == Init /\ [][NextStrings]_vars

\* a call in progress executes its next statement
SpecStringsFair == SpecStrings /\ WF_vars(StringsStep)

----------------------------------------------------------------------------
(* An FGFunction under construction from an element, caching, evaluation   *)
(* and changes of the properties it reads.                                 *)

\* child number k of the operation elements tried
Child(k) ==
    IF k = 1 THEN PropertyElement("qbar")
    ELSE IF k % 2 = 0 THEN ValueElement(One) ELSE ValueElement(Half)

\* every operation with one child up to MaxChildren children
FlatElements ==
    { Operation(type, [k \in 1..n |-> Child(k)]) : type \in Types, n \in 1..MaxChildren }

\* a sine with one child and with two as the second child of a sum, and
\* the documented example
Elements ==
    FlatElements \cup { Operation("sum", <<ValueElement(One), Operation("sin", <<Child(1)>>)>>),
                        Operation("sum", <<ValueElement(One), Operation("sin", <<Child(1), Child(2)>>)>>),
                        Example }

PropertyValues == [qbar |-> {Half, One}, wingarea |-> {Zero, Rat(8, 1)}]

\* no function: the construction failed
NoFunction == [Type |-> "none"]

EngineUnchanged ==
    UNCHANGED <<dT, holding, inertial, propagate, executedDt, nRun, stateSpace, massBalance,
                integration, utilities>>

\* new FGFunction(PropertyManager, element): a failed construction leaves
\* no function
FunctionLoad ==
    \E el \in Elements :
        /\ Function' = IF Loads(el) THEN Constructed(el) ELSE NoFunction
        /\ valueWhenCached' = Zero
        /\ last' = Called("FGFunction", el, Loads(el), FALSE, <<>>)
        /\ UNCHANGED properties
        /\ EngineUnchanged

\* a function as it is before anything is cached
Fresh(fn) == [fn EXCEPT !.cached = FALSE, !.cachedValue = Zero]

FunctionCacheValue ==
    \E shouldCache \in BOOLEAN :
        /\ Function # NoFunction
        /\ Function' = cacheValue(Function, shouldCache, properties)
        /\ valueWhenCached' =
               IF shouldCache THEN GetValue(Fresh(Function), properties)
               ELSE Zero
        /\ last' = Called("cacheValue", shouldCache, FALSE, FALSE, <<>>)
        /\ UNCHANGED properties
        /\ EngineUnchanged

FunctionGetValue ==
    /\ Function # NoFunction
    /\ last' = Called("GetValue", NoArg, GetValue(Function, properties), FALSE, <<>>)
    /\ UNCHANGED engine
    /\ EngineUnchanged

\* a model writes a property the function reads
SetProperty ==
    \E name \in DOMAIN PropertyValues :
        \E v \in PropertyValues[name] :
            /\ properties' = [properties EXCEPT ![name] = v]
            /\ last' = Called("SetProperty", <<name, v>>, FALSE, FALSE, <<>>)
            /\ UNCHANGED <<Function, valueWhenCached>>
            /\ EngineUnchanged

NextFunction == FunctionLoad \/ FunctionCacheValue \/ FunctionGetValue \/ SetProperty

SpecFunction == Init /\ [][NextFunction]_vars

----------------------------------------------------------------------------
(* The integration under initialisation, selection of the integrators and  *)
(* steps with the moments, the inertia tensor and the other derivatives as *)
(* inputs.                                                                 *)

\* at rest, and moving
InitialConditions ==
    { [vPQR |-> <<0, 0, 0>>, vUVW |-> <<0, 0, 0>>, qAttitudeECI |-> <<1, 0, 0, 0>>,
       vInertialPosition |-> <<0, 0, 0>>],
      [vPQR |-> <<0, 24, 0>>, vUVW |-> <<24, 0, 0>>, qAttitudeECI |-> <<0, 1, 0, 0>>,
       vInertialPosition |-> <<1, 0, 0>>] }

\* the integrators for the rotational rate, the translational rate, the
\* rotational position and the translational position
Selections ==
    { <<t, t, t, t>> : t \in IntegrateTypes }
        \cup { <<"eRectEuler", "eAdamsBashforth4", "eAdamsBashforth3", "eTrapezoidal">> }

\* the net moment of a step and the derivative of the other quantities
StepInputs ==
    { [vMoments |-> <<0, 0, 0>>, d |-> <<1, 0, 0>>],
      [vMoments |-> <<1, 0, 0>>, d |-> <<0, 0, 0>>],
      [vMoments |-> <<-1, 0, 0>>, d |-> <<0, 0, 0>>] }

\* inertia tensors of determinant 1
Tensors == { IdentityMat, << <<2, 0, 1>>, <<0, 1, 0>>, <<1, 0, 1>> >> }

IntegratorOf(self, q) ==
    CASE q = "vPQR" -> self.integrator_rotational_rate
      [] q = "vUVW" -> self.integrator_translational_rate
      [] q = "qAttitudeECI" -> self.integrator_rotational_position
      [] q = "vInertialPosition" -> self.integrator_translational_position

IntegrationUnchanged ==
    UNCHANGED <<dT, holding, inertial, propagate, executedDt, nRun, stateSpace, massBalance,
                engine, utilities>>

MotionInitModel ==
    \E ic \in InitialConditions, J \in Tensors :
        /\ motion' = Motion_InitModel(motion, ic, J)
        /\ since' = NoSteps(Motion_InitModel(motion, ic, J))
        /\ last' = Called("InitModel", NoArg, TRUE, FALSE, <<>>)
        /\ IntegrationUnchanged

\* the integrators are selected before the first step
SetIntegrators ==
    /\ since.N = 0
    /\ \E sel \in Selections :
        /\ motion' = [motion EXCEPT !.integrator_rotational_rate = sel[1],
                                    !.integrator_translational_rate = sel[2],
                                    !.integrator_rotational_position = sel[3],
                                    !.integrator_translational_position = sel[4]]
        /\ last' = Called("SetIntegrators", sel, FALSE, FALSE, <<>>)
    /\ UNCHANGED since
    /\ IntegrationUnchanged

MotionRun ==
    /\ Len(motion.dqPQRdot) = 4
    /\ since.N < MaxSteps
    /\ \A i \in 1..3 : Abs(motion.vPQR[i]) <= MaxRate
    /\ \E nothingToDo \in BOOLEAN, in \in StepInputs :
        \E m \in {Motion_Run(motion, nothingToDo, holding, dT, in.vMoments, in.d)} :
            /\ motion' = m
            /\ since' =
                 IF nothingToDo \/ holding THEN since
                 ELSE LET dot == Derivatives(motion, in.vMoments, in.d)
                      IN  [since EXCEPT
                             !.N = @ + 1,
                             !.dt = dT,
                             !.d = dot,
                             !.steady = @ /\ (since.N = 0 \/ (since.d = dot /\ since.dt = dT))]
            /\ last' = Called("Integrate", [vMoments |-> in.vMoments, vPQR |-> motion.vPQR],
                              GetPQRdot(m), nothingToDo, <<>>)
            /\ IntegrationUnchanged

NextIntegrate == Setdt \/ MotionInitModel \/ SetIntegrators \/ MotionRun

SpecIntegrate == Init /\ [][NextIntegrate]_vars

----------------------------------------------------------------------------
(* Claims about FGInertial, checked under Spec.                            *)

IsInertialRun == last.op = "FGInertial::Run"

\* a Run call that was neither fast-returned by the base model nor held
Executed(call) == ~call.nothingToDo /\ ~call.hold

\* C1: the planetary rotation angle equals RotationRate times the sum of the
\* step sizes of exactly the executed Run calls since the last successful
\* InitModel (since construction before any): skipped and held calls add
\* nothing, every executed call adds RotationRate * dt once.
C1_AngleIsSumOfExecutedSteps ==
    inertial.earthPosAngle = inertial.RotationRate * executedDt

\* a held call after executed calls with a positive step size
C1_Witness ==
    /\ IsInertialRun /\ last.hold /\ ~last.nothingToDo
    /\ executedDt >= 2
    /\ nRun = MaxRuns

\* C2: Run never decreases the angle, and increases it strictly when the
\* call is executed with a positive step size; the angle decreases only by
\* an InitModel whose base InitModel succeeded, which sets it to 0; an
\* InitModel whose base InitModel failed returns false and leaves the angle.
C2_AngleMonotonic ==
    [][ /\ (last'.op = "FGInertial::Run") =>
              /\ inertial'.earthPosAngle >= inertial.earthPosAngle
              /\ (Executed(last') /\ dT > 0) =>
                     inertial'.earthPosAngle > inertial.earthPosAngle
        /\ (inertial'.earthPosAngle < inertial.earthPosAngle) =>
              /\ last'.op = "FGInertial::InitModel"
              /\ last'.arg = TRUE
              /\ last'.ret = TRUE
              /\ inertial'.earthPosAngle = 0
        /\ (last'.op = "FGInertial::InitModel" /\ last'.arg = FALSE) =>
              /\ last'.ret = FALSE
              /\ inertial'.earthPosAngle = inertial.earthPosAngle ]_vars

\* an InitModel whose base InitModel failed, with the angle already advanced
C2_Witness ==
    /\ last.op = "FGInertial::InitModel" /\ last.arg = FALSE
    /\ inertial.earthPosAngle > 0

\* C3: a Run call that the base model fast-returns or that finds the
\* executive holding leaves the whole model state as it was (gAccel and
\* earthPosAngle in particular), whatever number of such calls follow
\* each other.
C3_SkippedStepChangesNothing ==
    [][ (last'.op = "FGInertial::Run" /\ ~Executed(last')) =>
            /\ inertial' = inertial
            /\ propagate' = propagate
            /\ dT' = dT /\ holding' = holding ]_vars

\* a skipped call at a radius whose gravitation differs from the stored one
C3_Witness ==
    /\ IsInertialRun /\ last.nothingToDo
    /\ inertial.earthPosAngle > 0
    /\ inertial.gAccel # FGInertial_GetGAccel(inertial, FGPropagate_GetRadius(propagate))

\* C4 as claimed: Run returns false only when the step was executed, and a
\* held step, like a frozen one, returns a value that differs from that of an
\* executed step.
C4_ReturnTellsExecuted ==
    IsInertialRun => (last.ret = FALSE <=> Executed(last))

\* C4 as amended: Run returns true exactly when the base model reports
\* nothing to do; it returns false on an executed step and on a held step
\* alike, and it did work (ran its hooks and updates) exactly when it was
\* neither.
C4_ReturnTellsFrozen ==
    IsInertialRun =>
        /\ last.ret = TRUE <=> last.nothingToDo
        /\ (last.trace # <<>>) <=> Executed(last)

\* a held step that returned false
C4_Witness ==
    IsInertialRun /\ last.hold /\ ~last.nothingToDo /\ last.ret = FALSE /\ last.trace = <<>>

\* 1% around 32.17 ft/s^2: 31.8483 and 32.4917
GravityLow == Frac(ToBig(318483), ToBig(10000))

GravityHigh == Frac(ToBig(324917), ToBig(10000))

WithinOnePercent(g) == FracLeq(GravityLow, g) /\ FracLeq(g, GravityHigh)

\* C6: GetGAccel(r) is GM/(r*r): what a call returns and what an executed Run
\* stores, multiplied by r*r, is GM; the constructed gAccelReference is
\* GetGAccel(RadiusReference), and with the Earth defaults it lies within 1%
\* of 32.17 ft/s^2.
C6_InverseSquareGravity ==
    /\ inertial.gAccelReference = FGInertial_GetGAccel(inertial, inertial.RadiusReference)
    /\ WithinOnePercent(FGInertial_GetGAccel(inertial, inertial.RadiusReference))
    /\ WithinOnePercent(inertial.gAccelReference)
    /\ (last.op = "FGInertial::GetGAccel") =>
          /\ last.ret.num = GM
          /\ last.ret.den = BigMul(ToBig(last.arg), ToBig(last.arg))
    /\ (IsInertialRun /\ Executed(last)) =>
          LET r == FGPropagate_GetRadius(propagate)
          IN  /\ inertial.gAccel.num = GM
              /\ inertial.gAccel.den = BigMul(ToBig(r), ToBig(r))

\* GetGAccel called with the reference radius
C6_Witness ==
    /\ last.op = "FGInertial::GetGAccel"
    /\ last.arg = RadiusReference
    /\ WithinOnePercent(last.ret)

\* C7: the Earth constants and gAccelReference hold the WGS84 defaults in
\* every state: no InitModel, Run, GetGAccel or GetGravityJ2 changes them.
C7_EarthConstantsImmutable ==
    /\ inertial.RotationRate = RotationRate
    /\ inertial.GM = GM
    /\ inertial.RadiusReference = RadiusReference
    /\ inertial.C2_0 = C2_0
    /\ inertial.J2 = J2
    /\ inertial.a = SemiMajor
    /\ inertial.b = SemiMinor
    /\ inertial.gAccelReference =
          Frac(GM, BigMul(ToBig(RadiusReference), ToBig(RadiusReference)))

\* GetGravityJ2 called after executed steps moved gAccel off its reference
\* and a successful InitModel reset the angle
C7_Witness ==
    /\ last.op = "FGInertial::GetGravityJ2"
    /\ inertial.gAccel # inertial.gAccelReference
    /\ inertial.earthPosAngle = 0
    /\ nRun > 0

----------------------------------------------------------------------------
(* Claims about FGPropagate, checked under SpecPropagate.                  *)

\* C5: GetRadius never returns 0, whatever sequence of setters led to the
\* state: it returns 1 when the stored radius is 0 and the stored radius
\* otherwise, so the gravitation FGInertial::Run computes from it has a
\* non-zero divisor.
C5_RadiusNeverZero ==
    LET stored == LocRadius(propagate.VState.vLocation)
        r == FGPropagate_GetRadius(propagate)
    IN  /\ r # 0
        /\ (stored = 0) => (r = 1)
        /\ (stored # 0) => (r = stored)
        /\ FGInertial_Run(inertial, FALSE, FALSE, dT, r).self.gAccel.den # <<>>

\* a nudge that moved the vehicle exactly to the centre
C5_Witness ==
    /\ last.op = "NudgeBodyLocation"
    /\ LocRadius(propagate.VState.vLocation) = 0
    /\ propagate.vDeltaXYZEC # ZeroVec

StateComponents ==
    {"vLocation", "vUVW", "vPQR", "vPQRi", "qAttitudeLocal", "qAttitudeECI",
     "vInertialVelocity", "vInertialPosition"}

\* C8 as claimed: after SetVState(s) every component of the vehicle state
\* equals that of s: location, vUVW, vPQR, vPQRi, both quaternions, the
\* inertial velocity and the inertial position.
C8_SetVStateCopiesAll ==
    (last.op = "SetVState") =>
        \A f \in StateComponents : propagate.VState[f] = last.arg[f]

Setters ==
    {"SetVState", "SetLocation", "SetLatitude", "SetLongitude", "SetRadius",
     "NudgeBodyLocation"}

MatricesInSync(self) ==
    /\ FGPropagate_GetTec2b(self) =
          MatMul(QuatT(self.VState.qAttitudeLocal), LocTec2l(self.VState.vLocation))
    /\ FGPropagate_GetTb2ec(self) = Transposed(FGPropagate_GetTec2b(self))

\* C9 as claimed, for a model whose matrices have been computed once: after
\* a setter that bypasses integration returns, the matrices GetTec2b and
\* GetTb2ec return are those of the current attitude and location.
C9_SettersKeepMatricesInSync ==
    (last.op \in Setters /\ propagate.Tec2b # ZeroMat) => MatricesInSync(propagate)

ZeroQuat == <<0, 0, 0, 0>>

\* the history new is old cut or padded to 4 entries, the padding being zero
PaddedToFour(old, new, zero) ==
    /\ Len(new) = 4
    /\ \A i \in 1..4 : new[i] = IF i <= Len(old) THEN old[i] ELSE zero

----------------------------------------------------------------------------
(* Claims about FGStateSpace, checked under SpecStateSpace.                *)

\* C11 as claimed: when linearize returns, the state of the complete
\* simulation is the baseline it was entered with: the states and inputs of
\* the component vectors and also what the steps advance without it being a
\* component, such as the planetary rotation angle.
C11_LinearizeRestoresBaseline ==
    [][ (last'.op = "linearize") =>
            /\ stateSpace'.x = stateSpace.x
            /\ stateSpace'.u = stateSpace.u
            /\ inertial'.earthPosAngle = inertial.earthPosAngle ]_vars

\* the baseline v with component j moved by k, as the code computes it
Moved(v, j, k) == [v EXCEPT ![j] = Rnd(v[j] + k)]

\* output i one step of size h after the baseline (x0, u0), as the plant
\* defines it; a holding executive leaves the states where they were set
AfterOneStep(x0, u0, hold, i) ==
    IF hold THEN x0[i] ELSE PlantStep(x0, u0, h)[i]

\* the same output in exact arithmetic, from the baseline moved exactly
ExactAfterOneStep(x0, u0, hold, i) ==
    IF hold THEN x0[i]
    ELSE << x0[1] + h * (PlantA * x0[1] + PlantB * u0[1]), x0[2] + h * x0[1] >>[i]

\* the slope of output i in state j and in input j over one step of size h
SlopeInState(hold) ==
    IF hold THEN <<<<1, 0>>, <<0, 1>>>>
    ELSE <<<<1 + h * PlantA, 0>>, <<h, 1>>>>

SlopeInInput(hold) ==
    IF hold THEN <<<<0>>, <<0>>>> ELSE <<<<h * PlantB>>, <<0>>>>

\* the entry J is the stencil of the four values f = <<f1, f2, fn1, fn2>>
IsStencilOf(J, f) ==
    /\ J.den = Rnd(12 * h)
    /\ J.num = Rnd(Rnd(8 * Rnd(f[1] - f[3])) - Rnd(f[2] - f[4]))

\* the four stencil values of output i for component j of the vector named
\* cv moved, under the evaluation after(x, u, hold, i)
StencilValues(after(_, _, _, _), move(_, _, _), x0, u0, cv, i, j, hold) ==
    LET At(k) == IF cv = "u" THEN after(x0, move(u0, j, k), hold, i)
                 ELSE after(move(x0, j, k), u0, hold, i)
    IN  <<At(h), At(2 * h), At(-h), At(-(2 * h))>>

ExactlyMoved(v, j, k) == [v EXCEPT ![j] = v[j] + k]

\* the matrices of the last linearization with their stencil values, their
\* perturbed vector and the slopes of the plant
Jacobians ==
    { [J |-> stateSpace.A, f |-> stateSpace.fA, cv |-> "x", n |-> 2,
       slope |-> SlopeInState(last.hold)],
      [J |-> stateSpace.B, f |-> stateSpace.fB, cv |-> "u", n |-> 1,
       slope |-> SlopeInInput(last.hold)] }

----------------------------------------------------------------------------
(* FGMassBalance *)

\* C13: GetPointmassInertia(m, r) returns, for v = StructuralToBody(r), the
\* tensor with diagonal m*(vy^2+vz^2), m*(vx^2+vz^2), m*(vx^2+vy^2) and
\* products of inertia -m*vx*vy, -m*vx*vz, -m*vy*vz on both sides of the
\* diagonal; for m >= 0 it is symmetric with a non-negative diagonal, and
\* it is the zero tensor when m = 0 or v = 0.
C13_PointmassInertiaFormula ==
    (last.op = "GetPointmassInertia") =>
        LET m == last.arg[1]
            v == StructuralToBody(massBalance, last.arg[2])
            T == last.ret
            Sq(a) == a * a
        IN  /\ T[1][1] = m * (Sq(v[2]) + Sq(v[3]))
            /\ T[2][2] = m * (Sq(v[1]) + Sq(v[3]))
            /\ T[3][3] = m * (Sq(v[1]) + Sq(v[2]))
            /\ T[1][2] = -(m * v[1] * v[2]) /\ T[2][1] = T[1][2]
            /\ T[1][3] = -(m * v[1] * v[3]) /\ T[3][1] = T[1][3]
            /\ T[2][3] = -(m * v[2] * v[3]) /\ T[3][2] = T[2][3]
            /\ (m >= 0) => \A i \in 1..3 : T[i][i] >= 0
            /\ (m = 0 \/ v = ZeroVec) => T = ZeroMat

\* the contribution of a positive mass off every body axis: all three
\* products of inertia are non-zero
C13_Witness ==
    /\ last.op = "GetPointmassInertia"
    /\ last.arg[1] = MaxSlugs
    /\ StructuralToBody(massBalance, last.arg[2]) = <<1, 2, -1>>
    /\ last.ret[1][2] = -(2 * MaxSlugs) /\ last.ret[1][3] = MaxSlugs
    /\ last.ret[1][1] = 5 * MaxSlugs

\* the tensor of the configuration as it is now
CurrentJ == MatAdd(massBalance.baseJ, CalculatePMInertias(massBalance, 1))

\* Jinv is the inverse of J
IsInverseOf(Jinv, J) ==
    /\ Jinv.det # 0
    /\ MatMul(J, Jinv.adj) = [i \in 1..3 |-> [j \in 1..3 |-> Jinv.det * IdentityMat[i][j]]]

\* C14: whatever changes of the mass configuration (SetPointMassWeight,
\* AddPointMass, SetAircraftBaseInertias) came before it, a GetJ query
\* returns the current base inertia tensor plus the contributions of the
\* current point masses, and a GetJinv query returns the inverse of that
\* tensor.
C14_TensorsAlwaysCurrent ==
    /\ (last.op = "GetJ") => last.ret = CurrentJ
    /\ (last.op = "GetJinv" /\ Det3(CurrentJ) # 0) => IsInverseOf(last.ret, CurrentJ)

----------------------------------------------------------------------------
(* FGFunction *)

\* C15: while the cache is filled, GetValue returns the value the function
\* had when cacheValue(true) filled it, whatever the properties are now;
\* when the cache is not filled (never filled, or cleared by
\* cacheValue(false)), GetValue returns the value of the function for the
\* properties as they are now.
C15_CachedValueIsReturned ==
    (last.op = "GetValue") =>
        IF Function.cached THEN last.ret = valueWhenCached
        ELSE last.ret = GetValue(Fresh(Function), properties)

\* a cached value returned after a property changed what the function
\* would evaluate to
C15_Witness ==
    /\ last.op = "GetValue" /\ Function.cached
    /\ last.ret = valueWhenCached
    /\ last.ret # GetValue(Fresh(Function), properties)

\* the children of an element or the parameters of a function
Kids(node) == IF "children" \in DOMAIN node THEN node.children ELSE node.Parameters

\* every operation of the tree has a child count its kind allows
RECURSIVE RightCounts(_)
RightCounts(node) ==
    \/ node.Type \in {"value", "property"}
    \/ /\ node.Type \in {"quotient", "pow", "exp", "atan2"} => Len(Kids(node)) = 2
       /\ node.Type \in {"sin", "cos", "tan", "asin", "acos", "atan", "log2", "ln", "log10"}
              => Len(Kids(node)) = 1
       /\ \A i \in 1..Len(Kids(node)) : RightCounts(Kids(node)[i])

C17_NestedEvaluation ==
    (last.op = "GetValue" /\ ~Function.cached) =>
        LET c == [i \in 1..Len(Function.Parameters) |->
                      GetValue(Function.Parameters[i], properties)]
        IN  /\ (Function = Constructed(Example)) =>
                  last.ret = RatAdd(RatAdd(Rat(314159, 100000), properties.qbar),
                                    RatMul(Rat(1, 8), properties.wingarea))
            /\ (Function.Type = "difference" /\ Len(c) = 3) =>
                  last.ret = RatSub(RatSub(c[1], c[2]), c[3])
            /\ (Function.Type = "quotient") => last.ret = RatDiv(c[1], c[2])

\* the example evaluated with qbar = 1/2 and wingarea = 8: 4.64159
C17_Witness ==
    /\ last.op = "GetValue"
    /\ Function = Constructed(Example)
    /\ properties = [qbar |-> Half, wingarea |-> Rat(8, 1)]
    /\ last.ret = Rat(464159, 100000)

----------------------------------------------------------------------------
(* The integrators *)

\* C18: after N >= 1 steps of one size dt from InitModel, all with the same
\* derivative d, each of the four quantities integrated by Euler, the
\* trapezoid or Adams-Bashforth 2, 3 or 4 is x0 + N*dt*d (values are counted
\* in 24ths), whatever integrators the other quantities have.
C18_ConstantDerivativeIsExact ==
    (since.steady /\ since.N >= 1) =>
        \A q \in Quantities :
            (IntegratorOf(motion, q) # "eNone") =>
                motion[q] = SeqAdd(since.x0[q], SeqScale(since.N * since.dt * 24, since.d[q]))

Executes(call) == ~call.nothingToDo /\ ~call.hold

\* a step that was taken from angular rate (0,0,0) with zero net moment
StepFromRest ==
    /\ last.op = "Integrate" /\ Executes(last)
    /\ last.arg.vPQR = ZeroVec /\ last.arg.vMoments = ZeroVec

\* the statement of C19 for every state the step can start from
C19_RestStaysAtRest ==
    StepFromRest => (last.ret = ZeroVec /\ motion.vPQR = ZeroVec)

\* C19: a step from angular rate (0,0,0) with zero net moment computes the
\* angular acceleration (0,0,0) for every inertia tensor, and leaves the
\* rate at (0,0,0) under every integrator if the three angular
\* accelerations of the steps before it, which the history holds, are zero
\* as well (as they are after InitModel).
C19_RestStaysAtRestFromZeroHistory ==
    StepFromRest =>
        /\ last.ret = ZeroVec
        /\ motion.vPQRdot = ZeroVec
        /\ (\A k \in 2..4 : motion.dqPQRdot[k] = ZeroVec) => motion.vPQR = ZeroVec

\* the last of MaxSteps steps at rest with no moment and an inertia tensor
\* with a product of inertia, under Adams-Bashforth 4
C19_Witness ==
    /\ StepFromRest
    /\ motion.J # IdentityMat
    /\ since.N = MaxSteps /\ since.x0.vPQR = ZeroVec
    /\ \A k \in 1..4 : motion.dqPQRdot[k] = ZeroVec
    /\ motion.integrator_rotational_rate = "eAdamsBashforth4"
    /\ motion.vPQR = ZeroVec /\ last.ret = ZeroVec

----------------------------------------------------------------------------
(* The hooks of FGInertial::Run *)

\* how often e occurs in the sequence t
Occurrences(t, e) == Cardinality({k \in 1..Len(t) : t[k] = e})

\* C20: an executed Run calls the pre-step hooks exactly once, before the
\* updates of gAccel and earthPosAngle, and the post-step hooks exactly
\* once, after both updates; a Run that is skipped (nothing to do, or the
\* executive holding) calls neither hook and updates nothing.
C20_HooksAroundUpdates ==
    (last.op = "FGInertial::Run") =>
        IF Executed(last)
        THEN /\ Occurrences(last.trace, "RunPreFunctions") = 1
             /\ Occurrences(last.trace, "RunPostFunctions") = 1
             /\ Occurrences(last.trace, "gAccel") = 1
             /\ Occurrences(last.trace, "earthPosAngle") = 1
             /\ last.trace[1] = "RunPreFunctions"
             /\ last.trace[Len(last.trace)] = "RunPostFunctions"
             /\ Len(last.trace) = 4
        ELSE last.trace = <<>>

\* an executed step with a positive step size, after a skipped one
C20_Witness ==
    /\ last.op = "FGInertial::Run" /\ Executed(last)
    /\ Len(last.trace) = 4
    /\ dT > 0 /\ inertial.earthPosAngle = dT * inertial.RotationRate
    /\ nRun >= 2

----------------------------------------------------------------------------
(* The runs a linearization makes, checked under SpecStateSpace.           *)

\* the Jacobians of linearize in the order it computes them (A, B, C, D):
\* the vector each one perturbs and its number n of components; each has
\* Outputs rows
JacobianOrder ==
    << [cv |-> "x", n |-> 2, J |-> stateSpace.A],
       [cv |-> "u", n |-> 1, J |-> stateSpace.B],
       [cv |-> "x", n |-> 2, J |-> stateSpace.C],
       [cv |-> "u", n |-> 1, J |-> stateSpace.D] >>

Outputs == Len(stateSpace.x)

\* the perturbations of one entry in the order of the code
Perturbations == <<h, 2 * h, -h, -(2 * h)>>

\* the number of runs of the Jacobians before the q-th, at 4*m*n each
RECURSIVE RunsBefore(_)
RunsBefore(q) ==
    IF q = 1 THEN 0 ELSE RunsBefore(q - 1) + 4 * Outputs * JacobianOrder[q - 1].n

\* C21: linearize sets the step to h before the first perturbed run; entry
\* (i, j) of each Jacobian is computed from exactly four runs of the complete
\* simulation, at +h, +2h, -h, -2h in this order, each with the perturbed
\* vector at its baseline in every component but j; a Jacobian of m outputs
\* and n inputs makes exactly 4*m*n runs and has m rows of n columns.
C21_FourRunsPerEntry ==
    (last.op = "linearize") =>
        /\ Len(stateSpace.runs) = RunsBefore(Len(JacobianOrder) + 1)
        /\ \A q \in 1..Len(JacobianOrder) :
             LET jac  == JacobianOrder[q]
                 base == IF jac.cv = "u" THEN last.arg[2] ELSE last.arg[1]
             IN  /\ Len(jac.J) = Outputs
                 /\ \A i \in 1..Outputs :
                      /\ Len(jac.J[i]) = jac.n
                      /\ \A j \in 1..jac.n : \A p \in 1..4 :
                           LET run == stateSpace.runs[RunsBefore(q)
                                          + ((i - 1) * jac.n + (j - 1)) * 4 + p]
                               at  == IF jac.cv = "u" THEN run.u ELSE run.x
                           IN  /\ run.dT = h
                               /\ at = Moved(base, j, Perturbations[p])

\* a linearization, not held, entered with a step other than h about a
\* solution off rest: 48 runs, the second one with the first state at +2h
C21_Witness ==
    /\ last.op = "linearize" /\ ~last.hold
    /\ last.arg[1] = <<1, -1>>
    /\ Len(stateSpace.runs) = 48
    /\ stateSpace.runs[2].x = <<3, -1>>
    /\ stateSpace.runs[17].u = <<2>>

----------------------------------------------------------------------------
(* Claims about PointMass::CalculateShapeInertia, checked under SpecShape. *)

\* the mass of a point mass in slugs
Slugs(pm) == Rat(pm.Weight, slugtolb)

\* r squared, and the fraction n/d of m times x
Squared(r) == Rat(r * r, 1)

Part(n, d, m, x) == RatMul(Rat(n, d), RatMul(m, x))

Diagonal(I) == <<I[1][1], I[2][2], I[3][3]>>

OffDiagonal(I) == <<I[1][2], I[1][3], I[2][1], I[2][3], I[3][1], I[3][2]>>

----------------------------------------------------------------------------
(* Claims about the trim program, checked under SpecTrim.                  *)

\* C24: linearize does not restore the step size.  The constructor of
\* FGSimplexTrim sets 1/120 s; when it returns, after linearize, the step
\* size of the simulation is h = 1e-5, and every Run the caller makes
\* afterwards (no Setdt in between) advances with h.
C24_StepSizeLeftAtH ==
    /\ (last.op = "FGSimplexTrim returns") => (last.arg = OneOver120 /\ last.arg # h)
    /\ (simplexTrim.pc = "returned") =>
           /\ dT = h
           /\ \A k \in 1..Len(simplexTrim.callerRuns) : simplexTrim.callerRuns[k] = h
           /\ \A k \in 1..Len(stateSpace.runs) : stateSpace.runs[k].dT = h

\* the constructor has returned and the caller has stepped twice, away from
\* rest
C24_Witness ==
    /\ simplexTrim.pc = "returned" /\ last.op = "fdm.Run"
    /\ simplexTrim.trace[1] = "Setdt(1./120)"
    /\ simplexTrim.callerRuns = <<h, h>>
    /\ stateSpace.x # <<0, 0>>

\* the events of the constructor so far
Events == { simplexTrim.trace[k] : k \in 1..Len(simplexTrim.trace) }

\* the position of the first occurrence of e in the trace (0: none)
First(e) ==
    IF e \in Events
    THEN CHOOSE k \in 1..Len(simplexTrim.trace) :
             simplexTrim.trace[k] = e /\ \A n \in 1..(k - 1) : simplexTrim.trace[n] # e
    ELSE 0

\* C25 as claimed: the solution is read only from a solver that was
\* constructed, also when the construction of the solver or an update()
\* throws std::runtime_error; update() is called only at status 1, and the
\* solution is read only after the loop has ended.
C25_SolutionReadFromConstructedSolver ==
    /\ "getSolution of unassigned solver" \notin Events
    /\ \A k \in 1..Len(simplexTrim.solver.calls) : simplexTrim.solver.calls[k] = 1
    /\ ("getSolution" \in Events) =>
           /\ simplexTrim.pc \notin {"solve", "iterate"}
           /\ "loop ended" \in Events \/ "std::runtime_error" \in Events

\* the rates the simulation gave at the mode menu
RatesGiven == [euler |-> last.arg[2], turn |-> last.arg[3], prompted |-> last.arg[1]]

\* C26: the mode selects exactly one constrained rate.  When the solver is
\* constructed the longitudinal mode has the three rates zero, the roll mode
\* only rollRate (the Euler rate, with stabAxisRoll true), the pull-up mode
\* only pitchRate and the turn mode only yawRate; any other mode ends the
\* process with status 1 before a solver is constructed; the body of the
\* mode loop executes exactly once.
C26_ModeSelectsOneRate ==
    LET c == simplexTrim.constraints
    IN  /\ simplexTrim.loops <= 1
        /\ (simplexTrim.pc \notin {"not started", "mode menu"}) => (simplexTrim.loops = 1)
        /\ (simplexTrim.mode \notin TrimModes /\ simplexTrim.pc # "mode menu") =>
               /\ simplexTrim.pc \in {"not started", "exit(1)"}
               /\ "new FGNelderMead" \notin Events
        /\ ("new FGNelderMead" \in Events) =>
               /\ simplexTrim.mode \in TrimModes
               /\ (simplexTrim.mode = "tLongitudinal")
                      => (c.rollRate = 0 /\ c.pitchRate = 0 /\ c.yawRate = 0)
               /\ (simplexTrim.mode = "tRoll")
                      => (c.pitchRate = 0 /\ c.yawRate = 0 /\ c.stabAxisRoll)
               /\ (simplexTrim.mode = "tPullup") => (c.rollRate = 0 /\ c.yawRate = 0)
               /\ (simplexTrim.mode = "tTurn") => (c.rollRate = 0 /\ c.pitchRate = 0)
        /\ (last.op = "mode menu") =>
               /\ (simplexTrim.mode = "tRoll") => (c.rollRate = RatesGiven.euler[1])
               /\ (simplexTrim.mode = "tPullup") => (c.pitchRate = RatesGiven.euler[2])
               /\ (simplexTrim.mode = "tTurn") => (c.yawRate = RatesGiven.turn)

\* a solver constructed for the roll mode from constraints that held other
\* rates: the roll rate is the Euler rate, not the prompted one
C26_Witness ==
    /\ simplexTrim.mode = "tRoll" /\ "new FGNelderMead" \in Events
    /\ simplexTrim.solver.assigned
    /\ simplexTrim.constraints = [rollRate |-> 1, pitchRate |-> 0, yawRate |-> 0,
                            stabAxisRoll |-> TRUE]
    /\ simplexTrim.loops = 1

----------------------------------------------------------------------------
(* Claims about the component setters of FGPropagate, checked under        *)
(* SpecRates.                                                              *)

\* C27: SetPQR(i, val) and SetUVW(i, val) change the vehicle state only for
\* i in 1..3, and then only component i of vPQR (of vUVW); for any other
\* index, 0 and the unsigned value of a negative integer included, the whole
\* vehicle state stays as it was; neither changes vPQRi, the quaternions,
\* the location or the derivative histories.
C27_ComponentSettersChangeOneComponent ==
    (last.op \in {"SetPQR", "SetUVW"}) =>
        LET pre == last.arg.self
            n   == last.arg.i
            v   == IF last.op = "SetPQR" THEN "vPQR" ELSE "vUVW"
            now == propagate.VState
        IN  /\ (n \in 1..3) =>
                   /\ now[v][n] = last.arg.val
                   /\ \A k \in (1..3) \ {n} : now[v][k] = pre.VState[v][k]
            /\ (n \notin 1..3) => (propagate = pre)
            /\ \A f \in (DOMAIN now) \ {v} : now[f] = pre.VState[f]
            /\ propagate.Tec2b = pre.Tec2b /\ propagate.Tb2ec = pre.Tb2ec
            /\ now.vPQRi = pre.VState.vPQRi
            /\ now.qAttitudeLocal = pre.VState.qAttitudeLocal
            /\ now.qAttitudeECI = pre.VState.qAttitudeECI
            /\ now.vLocation = pre.VState.vLocation
            /\ now.dqPQRdot = pre.VState.dqPQRdot /\ now.dqUVWdot = pre.VState.dqUVWdot
            /\ now.dqInertialVelocity = pre.VState.dqInertialVelocity
            /\ now.dqQtrndot = pre.VState.dqQtrndot

\* on a stepped vehicle, SetPQR(2, 5) has changed the pitch rate alone, and
\* the index -1 (4294967295 as unsigned) is one of those that change nothing
C27_Witness ==
    /\ last.op = "SetPQR" /\ last.arg.i = 2 /\ last.arg.val = 5
    /\ Len(propagate.VState.dqPQRdot) = 4 /\ propagate.VState.dqPQRdot[1] # <<0, 0, 0>>
    /\ propagate.VState.vPQR[2] = 5 /\ last.arg.self.VState.vPQR[2] # 5
    /\ propagate.VState.vUVW[1] = 5
    /\ ToUnsigned(-1) = <<7295, 9496, 42>> /\ ~OneToThree(ToUnsigned(-1))

----------------------------------------------------------------------------
(* Claims about the string utilities, checked under SpecStrings and, for   *)
(* termination, under SpecStringsFair.                                     *)

\* the first position of d in str
FirstOf(str, d) ==
    CHOOSE k \in 1..Len(str) : str[k] = d /\ \A n \in 1..(k - 1) : str[n] # d

\* the segments of str between the occurrences of d, in their order
RECURSIVE Segments(_, _)
Segments(str, d) ==
    IF \A k \in 1..Len(str) : str[k] # d THEN <<str>>
    ELSE <<SubSeq(str, 1, FirstOf(str, d) - 1)>>
           \o Segments(SubSeq(str, FirstOf(str, d) + 1, Len(str)), d)

\* seg without the whitespace at its two ends
Trimmed(seg) ==
    LET solid == { k \in 1..Len(seg) : ~isspace(seg[k]) }
    IN  IF solid = {} THEN <<>>
        ELSE SubSeq(seg, CHOOSE k \in solid : \A n \in solid : k <= n,
                         CHOOSE k \in solid : \A n \in solid : k >= n)

\* the non-empty trimmed segments
Tokens(str, d) ==
    LET segs == Segments(str, d)
    IN  SelectSeq([k \in 1..Len(segs) |-> Trimmed(segs[k])], LAMBDA t : t # <<>>)

SplitReturned == strings.fn = "split" /\ strings.pc = "done"

\* C28: split(str, d) returns, in their order of appearance, exactly the
\* non-empty whitespace-trimmed segments of str between occurrences of d: no
\* token is empty, none begins or ends with whitespace, none contains d when
\* d is not whitespace, and consecutive, leading or trailing delimiters give
\* no token; the call terminates for every input.
C28_SplitGivesTrimmedSegments ==
    /\ [](SplitReturned =>
            /\ strings.result = Tokens(strings.input, strings.d)
            /\ \A k \in 1..Len(strings.result) :
                 LET t == strings.result[k]
                 IN  /\ Len(t) > 0
                     /\ ~isspace(t[1]) /\ ~isspace(t[Len(t)])
                     /\ ~isspace(strings.d) => \A n \in 1..Len(t) : t[n] # strings.d
            /\ (\A n \in 1..Len(strings.input) : strings.input[n] = strings.d)
                    => (strings.result = <<>>))
    /\ ((strings.fn = "split") ~> SplitReturned)

\* "a ,": the token before the comma is trimmed, the empty segment after the
\* comma gives none
C28_Witness ==
    /\ SplitReturned
    /\ strings.input = <<"a", " ", ",">>
    /\ strings.d = ","
    /\ strings.result = << <<"a">> >>
    /\ Len(Segments(strings.input, ",")) = 2

\* the characters of str that are not whitespace, in their order
NonSpace(str) == SelectSeq(str, LAMBDA c : ~isspace(c))

\* the number of whitespace characters str begins with
LeadingSpaces(str) ==
    Cardinality({ k \in 1..Len(str) : \A n \in 1..k : isspace(str[n]) })

TrimAllSpaceReturned == strings.fn = "trim_all_space" /\ strings.pc = "done"

\* C29: trim_all_space(str) terminates for every string and leaves exactly
\* the non-whitespace characters of str in their order, also when the
\* character removed is at index 0, where --i wraps the unsigned i to the
\* largest size_t and i++ brings it back to 0; it is idempotent and never
\* indexes outside the string.
C29_TrimAllSpaceLeavesNonSpace ==
    /\ []((strings.fn = "trim_all_space") =>
            /\ strings.inside
            /\ (strings.pc = "trim_all_space: test") => BigLeq(strings.i, SizeT(Len(strings.str)))
            /\ (strings.pc = "trim_all_space: i++") =>
                   (strings.i = npos \/ Below(strings.i, SizeT(Len(strings.str))))
            /\ (strings.pc = "done") =>
                   /\ strings.result = NonSpace(strings.input)
                   /\ trim_all_space(strings.result) = strings.result
                   /\ strings.wraps = LeadingSpaces(strings.input))
    /\ ((strings.fn = "trim_all_space") ~> TrimAllSpaceReturned)

\* " a\t": the space at index 0 is removed with i wrapping once, the tab
\* after the a without
C29_Witness ==
    /\ TrimAllSpaceReturned
    /\ strings.input = <<" ", "a", "\t">>
    /\ strings.result = <<"a">>
    /\ strings.wraps = 1

\* C30: is_number(str) is true exactly when every character of str is one
\* of "+-.0123456789Ee": true for the empty string and for strings of signs,
\* dots or exponent letters only, false as soon as one character is not in
\* the set.
C30_IsNumberTestsCharacters ==
    (strings.fn = "is_number" /\ strings.pc = "done") =>
        /\ strings.result
              = (\A k \in 1..Len(strings.input) :
                     strings.input[k] \in
                         {"+", "-", ".", "0", "1", "2", "3", "4", "5", "6", "7", "8", "9",
                          "E", "e"})
        /\ (strings.input \in {<<>>, <<"E">>, <<"+", "E">>, <<"+", "+">>})
              => (strings.result = TRUE)
        /\ (\E k \in 1..Len(strings.input) : strings.input[k] \in {" ", "a", ","})
              => (strings.result = FALSE)

\* is_number("") has returned true
C30_Witness ==
    /\ strings.fn = "is_number" /\ strings.pc = "done"
    /\ strings.input = <<>>
    /\ strings.result = TRUE

====
